---- MODULE Spec2Model ----
(***************************************************************************)
(* Model of binance-consensus-trader: the consensus engine                 *)
(* (consensus.py) and the backtester (backtest.py, test_data.py).          *)
(*                                                                         *)
(* Python floats are IEEE-754 binary64 numbers.  They are modelled         *)
(* exactly: a float is a sign, a 53-bit mantissa and an exponent, and      *)
(* every arithmetic operation computes the exact result and rounds it to   *)
(* nearest, ties to even, as the hardware does.  TLC's integers have 32    *)
(* bits, so mantissas are kept as little-endian sequences of 15-bit limbs. *)
(***************************************************************************)
EXTENDS Integers, Sequences, FiniteSets, TLC

(***************************************************************************)
(* Natural numbers of any size: little-endian limbs, no leading zero limb. *)
(***************************************************************************)
LimbBits == 15

Base == 2 ^ LimbBits

MantBits == 53

RECURSIVE BTrim(_)
BTrim(a) ==
    IF Len(a) = 0 \/ a[Len(a)] # 0 THEN a ELSE BTrim(SubSeq(a, 1, Len(a) - 1))

RECURSIVE BFromInt(_)
BFromInt(n) ==
    IF n = 0 THEN <<>> ELSE <<n % Base>> \o BFromInt(n \div Base)

RECURSIVE BAddC(_, _, _, _)
BAddC(a, b, i, c) ==
    IF i > Len(a) /\ i > Len(b)
    THEN (IF c = 0 THEN <<>> ELSE <<c>>)
    ELSE LET x == (IF i <= Len(a) THEN a[i] ELSE 0)
                  + (IF i <= Len(b) THEN b[i] ELSE 0) + c
         IN  <<x % Base>> \o BAddC(a, b, i + 1, x \div Base)

BAdd(a, b) == BAddC(a, b, 1, 0)

RECURSIVE BSubC(_, _, _, _)
BSubC(a, b, i, w) ==
    IF i > Len(a)
    THEN <<>>
    ELSE LET x == a[i] - (IF i <= Len(b) THEN b[i] ELSE 0) - w
         IN  <<IF x < 0 THEN x + Base ELSE x>>
             \o BSubC(a, b, i + 1, IF x < 0 THEN 1 ELSE 0)

\* a - b for a >= b
BSub(a, b) == BTrim(BSubC(a, b, 1, 0))

RECURSIVE BCmpAt(_, _, _)
BCmpAt(a, b, i) ==
    IF i = 0 THEN 0
    ELSE IF a[i] > b[i] THEN 1
    ELSE IF a[i] < b[i] THEN -1
    ELSE BCmpAt(a, b, i - 1)

\* -1, 0, 1 as a < b, a = b, a > b
BCmp(a, b) ==
    IF Len(a) > Len(b) THEN 1
    ELSE IF Len(a) < Len(b) THEN -1
    ELSE BCmpAt(a, b, Len(a))

RECURSIVE BMulC(_, _, _, _)
BMulC(a, k, i, c) ==
    IF i > Len(a)
    THEN (IF c = 0 THEN <<>> ELSE <<c>>)
    ELSE LET x == a[i] * k + c
         IN  <<x % Base>> \o BMulC(a, k, i + 1, x \div Base)

\* a * k for 0 <= k <= Base
BMulInt(a, k) == IF k = 0 THEN <<>> ELSE BMulC(a, k, 1, 0)

RECURSIVE BMulAt(_, _, _)
BMulAt(a, b, i) ==
    IF i > Len(b) THEN <<>>
    ELSE BAdd(BMulInt(a, b[i]), BTrim(<<0>> \o BMulAt(a, b, i + 1)))

BMul(a, b) == BMulAt(a, b, 1)

\* a * 2^n
BShl(a, n) ==
    IF a = <<>> THEN <<>>
    ELSE [i \in 1..(n \div LimbBits) |-> 0] \o BMulInt(a, 2 ^ (n % LimbBits))

RECURSIVE BDivC(_, _, _, _)
BDivC(a, k, i, r) ==
    IF i = 0 THEN <<>>
    ELSE LET x == r * Base + a[i]
         IN  Append(BDivC(a, k, i - 1, x % k), x \div k)

\* floor(a / k) for 1 <= k <= Base
BDivInt(a, k) == BTrim(BDivC(a, k, Len(a), 0))

\* floor(a / 2^n)
BShr(a, n) ==
    LET w == n \div LimbBits
    IN  IF w >= Len(a) THEN <<>>
        ELSE BDivInt(SubSeq(a, w + 1, Len(a)), 2 ^ (n % LimbBits))

IntBitLen(x) == CHOOSE k \in 0..LimbBits : x < 2 ^ k /\ (k = 0 \/ x >= 2 ^ (k - 1))

BBitLen(a) ==
    IF a = <<>> THEN 0 ELSE LimbBits * (Len(a) - 1) + IntBitLen(a[Len(a)])

BOdd(a) == a # <<>> /\ a[1] % 2 = 1

IntLowZeros(x) == CHOOSE k \in 0..LimbBits : x % (2 ^ k) = 0 /\ x % (2 ^ (k + 1)) # 0

RECURSIVE BLowZerosAt(_, _)
BLowZerosAt(a, i) ==
    IF a[i] = 0 THEN LimbBits + BLowZerosAt(a, i + 1) ELSE IntLowZeros(a[i])

\* the number of low zero bits of a # 0
BLowZeros(a) == BLowZerosAt(a, 1)

RECURSIVE BLongDiv(_, _, _)
\* floor(r * 2^k / d) and the remainder, for r < d; the steps are halved, not
\* chained, to keep the evaluation shallow
BLongDiv(r, d, k) ==
    IF k = 0 THEN [q |-> <<>>, r |-> r]
    ELSE IF k = 1
    THEN LET r2 == BMulInt(r, 2)
         IN  IF BCmp(r2, d) >= 0
             THEN [q |-> <<1>>, r |-> BSub(r2, d)]
             ELSE [q |-> <<>>, r |-> r2]
    ELSE LET h  == k \div 2
             hi == BLongDiv(r, d, h)
             lo == BLongDiv(hi.r, d, k - h)
         IN  [q |-> BAdd(BShl(hi.q, k - h), lo.q), r |-> lo.r]

(***************************************************************************)
(* binary64: the value of [s, m, e] is s * m * 2^e; m = <<>> is zero,      *)
(* otherwise m has exactly MantBits bits.  Exponent range and NaN are not  *)
(* needed: every value of the model is far from overflow and underflow.    *)
(***************************************************************************)
FZero == [s |-> 1, m |-> <<>>, e |-> 0]

IsZero(x) == x.m = <<>>

\* s * M * 2^E (plus a nonzero part below M's last bit when st) rounded to
\* nearest, ties to even; st needs M of more than MantBits + 1 bits
FRound(s, M, E, st) ==
    IF M = <<>> THEN FZero
    ELSE LET L == BBitLen(M)
         IN  IF L <= MantBits
             THEN [s |-> s, m |-> BShl(M, MantBits - L), e |-> E - (MantBits - L)]
             ELSE LET d   == L - MantBits
                      t   == BShr(M, d - 1)
                      q   == BShr(t, 1)
                      low == st \/ BShl(t, d - 1) # M
                      up  == BOdd(t) /\ (low \/ BOdd(q))
                      q2  == IF up THEN BAdd(q, <<1>>) ELSE q
                  IN  IF BBitLen(q2) > MantBits
                      THEN [s |-> s, m |-> BShr(q2, 1), e |-> E + d + 1]
                      ELSE [s |-> s, m |-> q2, e |-> E + d]

\* float(n) for an int n
FromInt(n) == FRound(IF n < 0 THEN -1 ELSE 1, BFromInt(IF n < 0 THEN -n ELSE n), 0, FALSE)

FNeg(x) == IF IsZero(x) THEN x ELSE [x EXCEPT !.s = -x.s]

FAbs(x) == [x EXCEPT !.s = 1]

\* x + y
FAdd(x, y) ==
    IF IsZero(x) THEN y
    ELSE IF IsZero(y) THEN x
    ELSE LET E == IF x.e < y.e THEN x.e ELSE y.e
             X == BShl(x.m, x.e - E)
             Y == BShl(y.m, y.e - E)
             c == BCmp(X, Y)
         IN  IF x.s = y.s THEN FRound(x.s, BAdd(X, Y), E, FALSE)
             ELSE IF c = 0 THEN FZero
             ELSE IF c > 0 THEN FRound(x.s, BSub(X, Y), E, FALSE)
             ELSE FRound(y.s, BSub(Y, X), E, FALSE)

\* x - y
FSub(x, y) == FAdd(x, FNeg(y))

\* x * y
FMul(x, y) ==
    IF IsZero(x) \/ IsZero(y) THEN FZero
    ELSE FRound(x.s * y.s, BMul(x.m, y.m), x.e + y.e, FALSE)

\* x / y for y # 0 (Python raises ZeroDivisionError for y = 0: callers guard).
\* The quotient of the mantissas is taken to MantBits + 3 bits, by short
\* division when y's mantissa without its low zero bits fits one limb.
FDiv(x, y) ==
    IF IsZero(x) THEN FZero
    ELSE LET k  == MantBits + 3
             tz == BLowZeros(y.m)
             ds == BShr(y.m, tz)
         IN  IF Len(ds) = 1
             THEN LET N == BShl(x.m, k + tz)
                      q == BDivInt(N, ds[1])
                  IN  FRound(x.s * y.s, q, x.e - y.e - tz - k - tz,
                             BMulInt(q, ds[1]) # N)
             ELSE LET ge == BCmp(x.m, y.m) >= 0
                      d  == BLongDiv(IF ge THEN BSub(x.m, y.m) ELSE x.m, y.m, k)
                      q  == IF ge THEN BAdd(BShl(<<1>>, k), d.q) ELSE d.q
                  IN  FRound(x.s * y.s, q, x.e - y.e - k, d.r # <<>>)

\* -1, 0, 1 as x < y, x = y, x > y
FCmp(x, y) ==
    IF IsZero(x) /\ IsZero(y) THEN 0
    ELSE IF IsZero(x) THEN -y.s
    ELSE IF IsZero(y) THEN x.s
    ELSE IF x.s # y.s THEN x.s
    ELSE IF x.e # y.e THEN (IF x.e > y.e THEN x.s ELSE -x.s)
    ELSE x.s * BCmp(x.m, y.m)

FGe(x, y) == FCmp(x, y) >= 0

FGt(x, y) == FCmp(x, y) > 0

FLe(x, y) == FCmp(x, y) <= 0

FLt(x, y) == FCmp(x, y) < 0


(***************************************************************************)
(* Python's builtin sum over a list of numbers: 0, then each element added *)
(* in list order.  CPython from 3.12 on carries a compensation term when   *)
(* the elements are floats; on the lists of the metrics inputs below, and  *)
(* on lists of integral values, both give the same float.                  *)
(***************************************************************************)
RECURSIVE FSum(_)
FSum(xs) ==
    IF xs = <<>> THEN FZero
    ELSE FAdd(FSum(SubSeq(xs, 1, Len(xs) - 1)), xs[Len(xs)])

(***************************************************************************)
(* The state of the program.                                               *)
(***************************************************************************)
VARIABLES
    pc,               \* "start" before the call, "returned" after it, "raised"
                      \* after a call ended by an exception
    min_consensus,    \* ConsensusEngine.min_consensus
    long_percent,     \* _get_signal: argument
    short_percent,    \* _get_signal: argument
    signal,           \* _get_signal: return value
    positions,        \* calculate_consensus: argument, a dict in insertion order
    tracked_symbols,  \* calculate_consensus: argument, None or a list
    consensus_list,   \* calculate_consensus: return value
    scenario,         \* run_scenario: argument
    trades,           \* run_scenario: return value; _calculate_metrics: argument
    result,           \* _calculate_metrics: return value
    call,             \* the method the modelled call is of
    calls,            \* the calculate_consensus calls made on one engine so far
    symbol_data,      \* calculate_consensus: its local dict, as the last call left it
    strong_signals,   \* get_strong_signals: return value
    report,           \* format_consensus_report: return value, as its lines
    scenarios,        \* run_all_scenarios: the list get_all_scenarios returned
    all_trades,       \* run_all_scenarios: its local list
    returned_trades,  \* run_all_scenarios: what each run_scenario call returned
    env_tracked,      \* the TRACKED_SYMBOLS environment variable
    has_bot,          \* ConsensusTrader.bot is not None
    bot_is_running,   \* ConsensusBot.is_running
    is_running,       \* ConsensusTrader.is_running
    tick,             \* run_watch_mode: turns of the sleep loop taken
    scans,            \* run_single_scan calls begun
    sent,             \* the messages given to send_consensus_alert
    stop_calls,       \* stop_async calls made by run()
    fired_pc,         \* where the program was when signal_handler first ran
    fired_scans,      \* scans begun when signal_handler first ran
    stop_scans,       \* scans begun when /stop was last handled, -1 without
    traders,          \* run_single_scan: the uids of the traders it got
    last_update,      \* ConsensusTrader.last_update: 0 for None, else the number
                      \* of the scan that set it
    scan_result,      \* what the last run_single_scan returned, "none" before
    scan_trace        \* the calls the scan made, "except" if it caught one

vars == <<pc, min_consensus, long_percent, short_percent, signal,
          positions, tracked_symbols, consensus_list, scenario, trades, result,
          call, calls, symbol_data, strong_signals, report,
          scenarios, all_trades, returned_trades,
          env_tracked, has_bot, bot_is_running, is_running, tick, scans, sent,
          stop_calls, fired_pc, fired_scans, stop_scans,
          traders, last_update, scan_result, scan_trace>>

\* the variables of the engine's other methods
other_vars == <<call, calls, symbol_data, strong_signals, report>>

\* the variables of the application in main.py
app_vars == <<env_tracked, has_bot, bot_is_running, is_running, tick, scans, sent,
              stop_calls, fired_pc, fired_scans, stop_scans,
              traders, last_update, scan_result, scan_trace>>

\* what run_single_scan keeps of its own course
scan_course == <<traders, last_update, scan_result, scan_trace>>

\* the variables of run_all_scenarios
run_vars == <<scenarios, all_trades, returned_trades>>

(***************************************************************************)
(* consensus.py: ConsensusEngine._get_signal                               *)
(***************************************************************************)
StrongThreshold == 70

\* a strict first comparison
get_signal_strict(lp, sp, mc) ==
    IF FGt(lp, FromInt(StrongThreshold)) THEN "STRONG_BUY"
    ELSE IF FGe(lp, mc) THEN "BUY"
    ELSE IF FGe(sp, FromInt(StrongThreshold)) THEN "STRONG_SELL"
    ELSE IF FGe(sp, mc) THEN "SELL"
    ELSE "NEUTRAL"

\* the short side looked at first
get_signal_short_first(lp, sp, mc) ==
    IF FGe(sp, FromInt(StrongThreshold)) THEN "STRONG_SELL"
    ELSE IF FGe(sp, mc) THEN "SELL"
    ELSE IF FGe(lp, FromInt(StrongThreshold)) THEN "STRONG_BUY"
    ELSE IF FGe(lp, mc) THEN "BUY"
    ELSE "NEUTRAL"

\* a strict comparison for SELL alone
get_signal_strict_sell(lp, sp, mc) ==
    IF FGe(lp, FromInt(StrongThreshold)) THEN "STRONG_BUY"
    ELSE IF FGe(lp, mc) THEN "BUY"
    ELSE IF FGe(sp, FromInt(StrongThreshold)) THEN "STRONG_SELL"
    ELSE IF FGt(sp, mc) THEN "SELL"
    ELSE "NEUTRAL"

get_signal(lp, sp, mc) ==
    IF FGe(lp, FromInt(StrongThreshold)) THEN "STRONG_BUY"
    ELSE IF FGe(lp, mc) THEN "BUY"
    ELSE IF FGe(sp, FromInt(StrongThreshold)) THEN "STRONG_SELL"
    ELSE IF FGe(sp, mc) THEN "SELL"
    ELSE "NEUTRAL"

(***************************************************************************)
(* consensus.py: ConsensusEngine.calculate_consensus                       *)
(***************************************************************************)
\* tracked_symbols is None or a list of strings
NoneList == [is_none |-> TRUE, items |-> <<>>]

ListOf(items) == [is_none |-> FALSE, items |-> items]

\* Python truth of tracked_symbols: None and the empty list are false
Truthy(tracked) == ~tracked.is_none /\ Len(tracked.items) > 0

InList(x, items) == \E i \in 1..Len(items) : items[i] = x

\* positions.items() with each trader's list: the (uid, position) pairs in
\* iteration order
RECURSIVE Flatten(_)
Flatten(ps) ==
    IF ps = <<>> THEN <<>>
    ELSE [i \in 1..Len(ps[1].plist) |-> [uid |-> ps[1].uid, pos |-> ps[1].plist[i]]]
         \o Flatten(Tail(ps))

\* the defaultdict's factory
NewSymbolData(symbol) ==
    [symbol |-> symbol, longs |-> <<>>, shorts |-> <<>>,
     long_pnl |-> <<>>, short_pnl |-> <<>>,
     long_leverage |-> <<>>, short_leverage |-> <<>>]

HasSymbol(data, symbol) == \E i \in 1..Len(data) : data[i].symbol = symbol

\* symbol_data[symbol]: the entry for symbol, made at the end when missing
Touch(data, symbol) ==
    IF HasSymbol(data, symbol) THEN data ELSE Append(data, NewSymbolData(symbol))

\* a grouping that counts a trader once for each symbol
AddPositionOncePerTrader(data, uid, pos) ==
    LET d == Touch(data, pos.symbol)
    IN  [i \in 1..Len(d) |->
            IF d[i].symbol # pos.symbol THEN d[i]
            ELSE IF \E j \in 1..Len(d[i].longs \o d[i].shorts) :
                        (d[i].longs \o d[i].shorts)[j] = uid
            THEN d[i]
            ELSE IF pos.side = "LONG"
            THEN [d[i] EXCEPT !.longs = Append(@, uid),
                              !.long_pnl = Append(@, pos.pnl),
                              !.long_leverage = Append(@, pos.leverage)]
            ELSE [d[i] EXCEPT !.shorts = Append(@, uid),
                              !.short_pnl = Append(@, pos.pnl),
                              !.short_leverage = Append(@, pos.leverage)]]

\* one position appended to its side's lists
AddPosition(data, uid, pos) ==
    LET d == Touch(data, pos.symbol)
    IN  [i \in 1..Len(d) |->
            IF d[i].symbol # pos.symbol THEN d[i]
            ELSE IF pos.side = "LONG"
            THEN [d[i] EXCEPT !.longs = Append(@, uid),
                              !.long_pnl = Append(@, pos.pnl),
                              !.long_leverage = Append(@, pos.leverage)]
            ELSE [d[i] EXCEPT !.shorts = Append(@, uid),
                              !.short_pnl = Append(@, pos.pnl),
                              !.short_leverage = Append(@, pos.leverage)]]

\* the grouping loop without its filter
RECURSIVE GroupPositionsUnfiltered(_, _, _, _)
GroupPositionsUnfiltered(flat, i, tracked, data) ==
    IF i > Len(flat) THEN data
    ELSE GroupPositionsUnfiltered(flat, i + 1, tracked,
                                  AddPosition(data, flat[i].uid, flat[i].pos))

\* the grouping loop: symbol_data after the pairs of flat from i on
RECURSIVE GroupPositions(_, _, _, _)
GroupPositions(flat, i, tracked, data) ==
    IF i > Len(flat) THEN data
    ELSE IF Truthy(tracked) /\ ~InList(flat[i].pos.symbol, tracked.items)
    THEN GroupPositions(flat, i + 1, tracked, data)
    ELSE GroupPositions(flat, i + 1, tracked,
                        AddPosition(data, flat[i].uid, flat[i].pos))

\* the percentage by integer division
PercentTruncated(count, total) == FromInt((count * 100) \div total)

\* (count / total) * 100
Percent(count, total) == FMul(FDiv(FromInt(count), FromInt(total)), FromInt(100))

\* the leverage summed and not divided
SumLeverage(leverage) ==
    FSum([i \in 1..Len(leverage) |-> FromInt(leverage[i])])

\* sum(leverage) / len(leverage) if leverage else 0, leverage a list of ints
AvgLeverage(leverage) ==
    IF leverage = <<>> THEN FZero
    ELSE FDiv(FSum([i \in 1..Len(leverage) |-> FromInt(leverage[i])]),
              FromInt(Len(leverage)))

\* the SymbolConsensus of one symbol_data entry
MakeConsensus(d, mc) ==
    LET long_count  == Len(d.longs)
        short_count == Len(d.shorts)
        total       == long_count + short_count
        lp          == Percent(long_count, total)
        sp          == Percent(short_count, total)
    IN  [symbol |-> d.symbol,
         long_count |-> long_count,
         short_count |-> short_count,
         total_count |-> total,
         long_percent |-> lp,
         short_percent |-> sp,
         avg_leverage_long |-> AvgLeverage(d.long_leverage),
         avg_leverage_short |-> AvgLeverage(d.short_leverage),
         total_long_pnl |-> FSum(d.long_pnl),
         total_short_pnl |-> FSum(d.short_pnl),
         signal |-> get_signal(lp, sp, mc)]

\* the second loop: entries with total == 0 are skipped
RECURSIVE MakeConsensusList(_, _, _)
MakeConsensusList(data, i, mc) ==
    IF i > Len(data) THEN <<>>
    ELSE IF Len(data[i].longs) + Len(data[i].shorts) = 0
    THEN MakeConsensusList(data, i + 1, mc)
    ELSE <<MakeConsensus(data[i], mc)>> \o MakeConsensusList(data, i + 1, mc)

\* c put before the records of its own total_count
InsertBeforeTies(sorted, c) ==
    LET k == Cardinality({j \in 1..Len(sorted) : sorted[j].total_count > c.total_count})
    IN  SubSeq(sorted, 1, k) \o <<c>> \o SubSeq(sorted, k + 1, Len(sorted))

\* c put behind every record that does not sort after it
InsertByTotal(sorted, c) ==
    LET k == Cardinality({j \in 1..Len(sorted) : sorted[j].total_count >= c.total_count})
    IN  SubSeq(sorted, 1, k) \o <<c>> \o SubSeq(sorted, k + 1, Len(sorted))

\* list.sort(key=total_count, reverse=True): stable, equal keys keep their order
RECURSIVE SortByTotal(_)
SortByTotal(list) ==
    IF list = <<>> THEN <<>>
    ELSE InsertByTotal(SortByTotal(SubSeq(list, 1, Len(list) - 1)), list[Len(list)])

calculate_consensus(ps, tracked, mc) ==
    SortByTotal(MakeConsensusList(GroupPositions(Flatten(ps), 1, tracked, <<>>), 1, mc))


(***************************************************************************)
(* backtest.py: Backtester.run_scenario                                    *)
(***************************************************************************)
\* Backtester.__init__: min_consensus
BacktesterMinConsensus == 60

\* scenario.positions.get(uid, [])
DictGet(dict, uid) ==
    IF \E i \in 1..Len(dict) : dict[i].uid = uid
    THEN dict[CHOOSE i \in 1..Len(dict) : dict[i].uid = uid].plist
    ELSE <<>>

\* dict[uid] = plist: a present key keeps its place, a new key goes last
DictSet(dict, uid, plist) ==
    IF \E i \in 1..Len(dict) : dict[i].uid = uid
    THEN [i \in 1..Len(dict) |->
            IF dict[i].uid = uid THEN [uid |-> uid, plist |-> plist] ELSE dict[i]]
    ELSE Append(dict, [uid |-> uid, plist |-> plist])

\* the Position made of one MockPosition
\* a conversion that marks the position at its entry price
ConvertPositionAtEntry(mock_pos) ==
    [symbol |-> mock_pos.symbol, side |-> mock_pos.side,
     entry_price |-> mock_pos.entry_price, mark_price |-> mock_pos.entry_price,
     pnl |-> mock_pos.pnl, roe |-> 0, leverage |-> 1, update_time |-> 0]

ConvertPosition(mock_pos) ==
    [symbol |-> mock_pos.symbol, side |-> mock_pos.side,
     entry_price |-> mock_pos.entry_price, mark_price |-> mock_pos.exit_price,
     pnl |-> mock_pos.pnl, roe |-> 0, leverage |-> 1, update_time |-> 0]

\* the loop over scenario.traders: the positions dict after the traders
\* from i on
RECURSIVE ConvertTraders(_, _, _)
ConvertTraders(sc, i, ps) ==
    IF i > Len(sc.traders) THEN ps
    ELSE LET uid == sc.traders[i].encrypted_uid
             mock == DictGet(sc.positions, uid)
             trader_positions == [k \in 1..Len(mock) |-> ConvertPosition(mock[k])]
         IN  ConvertTraders(sc, i + 1,
                            IF trader_positions # <<>>
                            THEN DictSet(ps, uid, trader_positions)
                            ELSE ps)

\* only the LONG positions of the symbol
SymbolPositionsLongOnly(ps, symbol) ==
    LET flat == Flatten(ps)
    IN  SelectSeq([i \in 1..Len(flat) |-> flat[i].pos],
                  LAMBDA p : p.symbol = symbol /\ p.side = "LONG")

\* symbol_positions: every position of the symbol, in dict order
SymbolPositions(ps, symbol) ==
    LET flat == Flatten(ps)
    IN  SelectSeq([i \in 1..Len(flat) |-> flat[i].pos],
                  LAMBDA p : p.symbol = symbol)

\* sum over a list of Python ints
RECURSIVE SumInt(_)
SumInt(xs) == IF xs = <<>> THEN 0 ELSE xs[1] + SumInt(Tail(xs))

\* sum(prices) / len(prices), the prices Python ints: int / int is the
\* correctly rounded quotient
MeanInt(prices) == FDiv(FromInt(SumInt(prices)), FromInt(Len(prices)))

\* a trade for the strong signals only
trade_side_strong_only(sig) ==
    IF sig = "STRONG_BUY" THEN "LONG"
    ELSE IF sig = "STRONG_SELL" THEN "SHORT"
    ELSE "none"

\* the side chosen from the signal; "none" is the branch that continues
trade_side(sig) ==
    IF sig \in {"STRONG_BUY", "BUY"} THEN "LONG"
    ELSE IF sig \in {"STRONG_SELL", "SELL"} THEN "SHORT"
    ELSE "none"

\* the Trade built for an actionable signal from the two averages
MakeTrade(symbol, sig, avg_entry, avg_exit, date) ==
    LET side == trade_side(sig)
        pnl  == IF side = "LONG" THEN FSub(avg_exit, avg_entry)
                ELSE FSub(avg_entry, avg_exit)
    IN  [symbol |-> symbol, side |-> side,
         entry_price |-> avg_entry, exit_price |-> avg_exit,
         entry_time |-> date, exit_time |-> date,
         pnl |-> pnl,
         pnl_percent |-> FMul(FDiv(pnl, avg_entry), FromInt(100)),
         signal |-> sig]

\* a loop that passes over a symbol whose avg_entry is zero
RECURSIVE TradeLoopSkipZero(_, _, _, _, _)
TradeLoopSkipZero(cl, i, ps, date, ts) ==
    IF i > Len(cl) THEN [raised |-> FALSE, trades |-> ts]
    ELSE LET cons == cl[i]
             symbol_positions == SymbolPositions(ps, cons.symbol)
             avg_entry == MeanInt([k \in 1..Len(symbol_positions) |->
                                       symbol_positions[k].entry_price])
             avg_exit  == MeanInt([k \in 1..Len(symbol_positions) |->
                                       symbol_positions[k].mark_price])
         IN  IF symbol_positions = <<>> THEN TradeLoopSkipZero(cl, i + 1, ps, date, ts)
             ELSE IF trade_side(cons.signal) = "none" \/ IsZero(avg_entry)
             THEN TradeLoopSkipZero(cl, i + 1, ps, date, ts)
             ELSE TradeLoopSkipZero(cl, i + 1, ps, date,
                                    Append(ts, MakeTrade(cons.symbol, cons.signal,
                                                         avg_entry, avg_exit, date)))

\* the loop over consensus_list from i on, ts the trades appended so far;
\* dividing by an avg_entry of zero raises ZeroDivisionError and the call
\* returns nothing
RECURSIVE TradeLoop(_, _, _, _, _)
TradeLoop(cl, i, ps, date, ts) ==
    IF i > Len(cl) THEN [raised |-> FALSE, trades |-> ts]
    ELSE LET cons == cl[i]
             symbol_positions == SymbolPositions(ps, cons.symbol)
             avg_entry == MeanInt([k \in 1..Len(symbol_positions) |->
                                       symbol_positions[k].entry_price])
             avg_exit  == MeanInt([k \in 1..Len(symbol_positions) |->
                                       symbol_positions[k].mark_price])
         IN  IF symbol_positions = <<>> THEN TradeLoop(cl, i + 1, ps, date, ts)
             ELSE IF trade_side(cons.signal) = "none"
             THEN TradeLoop(cl, i + 1, ps, date, ts)
             ELSE IF IsZero(avg_entry) THEN [raised |-> TRUE, trades |-> <<>>]
             ELSE TradeLoop(cl, i + 1, ps, date,
                            Append(ts, MakeTrade(cons.symbol, cons.signal,
                                                 avg_entry, avg_exit, date)))


(***************************************************************************)
(* backtest.py: Backtester._calculate_metrics                              *)
(***************************************************************************)
Pnls(ts) == [i \in 1..Len(ts) |-> ts[i].pnl]

\* the trades with pnl >= 0
WinningWithZero(ts) == SelectSeq(ts, LAMBDA t : FGe(t.pnl, FZero))

\* winning = [t for t in trades if t.pnl > 0]
Winning(ts) == SelectSeq(ts, LAMBDA t : FGt(t.pnl, FZero))

\* losing = [t for t in trades if t.pnl <= 0]
Losing(ts) == SelectSeq(ts, LAMBDA t : FLe(t.pnl, FZero))

\* the sum alone
SumPnl(ts) == FSum(Pnls(ts))

\* sum(pnl) / len(ts) if ts else 0
AvgPnl(ts) ==
    IF ts = <<>> THEN FZero ELSE FDiv(FSum(Pnls(ts)), FromInt(Len(ts)))

\* a drawdown that adds the losses up
RECURSIVE DrawdownLoopCumulative(_, _, _, _)
DrawdownLoopCumulative(ts, i, max_dd, peak) ==
    IF i > Len(ts) THEN max_dd
    ELSE IF FGt(ts[i].pnl, FZero)
    THEN DrawdownLoopCumulative(ts, i + 1, max_dd, FAdd(peak, ts[i].pnl))
    ELSE DrawdownLoopCumulative(ts, i + 1, FAdd(max_dd, FAbs(ts[i].pnl)), peak)

\* the loop over the trades from i on: max_dd at its end
RECURSIVE DrawdownLoop(_, _, _, _)
DrawdownLoop(ts, i, max_dd, peak) ==
    IF i > Len(ts) THEN max_dd
    ELSE IF FGt(ts[i].pnl, FZero)
    THEN DrawdownLoop(ts, i + 1, max_dd, FAdd(peak, ts[i].pnl))
    ELSE LET dd == FAbs(ts[i].pnl)
         IN  DrawdownLoop(ts, i + 1, IF FGt(dd, max_dd) THEN dd ELSE max_dd, peak)

calculate_metrics(ts) ==
    IF ts = <<>>
    THEN [total_trades |-> 0, winning_trades |-> 0, losing_trades |-> 0,
          win_rate |-> FZero, total_pnl |-> FZero, avg_profit |-> FZero,
          avg_loss |-> FZero, max_drawdown |-> FZero, trades |-> <<>>]
    ELSE LET winning == Winning(ts)
             losing  == Losing(ts)
         IN  [total_trades |-> Len(ts),
              winning_trades |-> Len(winning),
              losing_trades |-> Len(losing),
              win_rate |-> FMul(FDiv(FromInt(Len(winning)), FromInt(Len(ts))),
                                FromInt(100)),
              total_pnl |-> FSum(Pnls(ts)),
              avg_profit |-> AvgPnl(winning),
              avg_loss |-> AvgPnl(losing),
              max_drawdown |-> DrawdownLoop(ts, 1, FZero, FZero),
              trades |-> ts]


(***************************************************************************)
(* consensus.py: calculate_consensus with its local dict in view           *)
(***************************************************************************)
\* a dict that outlives the call
CarriedSymbolData(old) == old

\* symbol_data = defaultdict(...): a new dict at every call, whatever the
\* call before left behind
FreshSymbolData(old) == <<>>

\* the local dict at the end of the call and the list returned
calculate_consensus_from(old, ps, tracked, mc) ==
    LET data == GroupPositions(Flatten(ps), 1, tracked, FreshSymbolData(old))
    IN  [symbol_data |-> data,
         consensus_list |-> SortByTotal(MakeConsensusList(data, 1, mc))]

(***************************************************************************)
(* consensus.py: get_strong_signals and format_consensus_report            *)
(***************************************************************************)
\* the records with a STRONG_ signal only
get_strong_signals_strong_only(cl) ==
    SelectSeq(cl, LAMBDA c : c.signal \in {"STRONG_BUY", "STRONG_SELL"})

get_strong_signals(cl) ==
    SelectSeq(cl, LAMBDA c : c.signal \in {"STRONG_BUY", "BUY", "STRONG_SELL", "SELL"})

\* the value of a big natural below Base * Base
BToInt(a) ==
    IF a = <<>> THEN 0 ELSE IF Len(a) = 1 THEN a[1] ELSE a[1] + Base * a[2]

\* |x| * 10 rounded to the nearest integer, ties to even: the digits that
\* the format ".1f" prints
Tenths(x) ==
    IF IsZero(x) THEN 0
    ELSE LET N == BMulInt(x.m, 10)
         IN  IF x.e >= 0 THEN BToInt(BShl(N, x.e))
             ELSE LET q == BShr(N, -x.e)
                      r == BSub(N, BShl(q, -x.e))
                      c == BCmp(r, BShl(<<1>>, -x.e - 1))
                  IN  BToInt(q) + (IF c > 0 \/ (c = 0 /\ BOdd(q)) THEN 1 ELSE 0)

\* f"{x:.1f}"
Format1(x) ==
    LET t == Tenths(x)
    IN  (IF x.s < 0 THEN "-" ELSE "") \o ToString(t \div 10) \o "." \o ToString(t % 10)

\* list[:n]
Take(list, n) == SubSeq(list, 1, IF n < Len(list) THEN n ELSE Len(list))

\* strong_signals[:5] and consensus_list[:3]
MaxSignalBlocks == 5

TopCount == 3

\* The report is the text "\n".join(lines), kept as the sequence of its
\* lines; emoji and Cyrillic words of the source are written in ASCII.
NoDataMessage == <<"(chart) No position data">>

\* the three lines of one signal block and the empty line behind it
SignalBlock(c) ==
    LET long == c.signal \in {"STRONG_BUY", "BUY"}
        direction == IF long THEN "LONG" ELSE "SHORT"
    IN  <<(IF long THEN "(green)" ELSE "(red)") \o " *" \o c.symbol \o "* - " \o c.signal,
          "- " \o direction \o ": "
               \o Format1(IF direction = "LONG" THEN c.long_percent ELSE c.short_percent)
               \o "%",
          "- Traders: " \o ToString(c.total_count) \o " (" \o ToString(c.long_count)
               \o " LONG / " \o ToString(c.short_count) \o " SHORT)",
          "">>

RECURSIVE SignalBlocks(_)
SignalBlocks(cl) ==
    IF cl = <<>> THEN <<>> ELSE SignalBlock(cl[1]) \o SignalBlocks(Tail(cl))

TopLine(c) ==
    "- " \o c.symbol \o ": " \o Format1(c.long_percent) \o "% LONG ("
         \o ToString(c.total_count) \o " traders)"

\* a report built without the test for an empty list
format_consensus_report_unguarded(cl) ==
    <<"(chart) *BINANCE CONSENSUS REPORT*", "">>
    \o (IF get_strong_signals(cl) # <<>>
        THEN <<"(alarm) *SIGNALS:*", "">>
             \o SignalBlocks(Take(get_strong_signals(cl), MaxSignalBlocks))
        ELSE <<"(warning) No clear consensus (minimum 60% required)", "">>)
    \o <<"(trend) *Most discussed:*", "">>
    \o [i \in 1..Len(Take(cl, TopCount)) |-> TopLine(cl[i])]

\* a report that lists every actionable record
format_consensus_report_uncut(cl) ==
    IF cl = <<>> THEN NoDataMessage
    ELSE <<"(chart) *BINANCE CONSENSUS REPORT*", "">>
         \o (IF get_strong_signals(cl) # <<>>
             THEN <<"(alarm) *SIGNALS:*", "">> \o SignalBlocks(get_strong_signals(cl))
             ELSE <<"(warning) No clear consensus (minimum 60% required)", "">>)
         \o <<"(trend) *Most discussed:*", "">>
         \o [i \in 1..Len(Take(cl, TopCount)) |-> TopLine(cl[i])]

format_consensus_report(cl) ==
    IF cl = <<>> THEN NoDataMessage
    ELSE <<"(chart) *BINANCE CONSENSUS REPORT*", "">>
         \o (IF get_strong_signals(cl) # <<>>
             THEN <<"(alarm) *SIGNALS:*", "">>
                  \o SignalBlocks(Take(get_strong_signals(cl), MaxSignalBlocks))
             ELSE <<"(warning) No clear consensus (minimum 60% required)", "">>)
         \o <<"(trend) *Most discussed:*", "">>
         \o [i \in 1..Len(Take(cl, TopCount)) |-> TopLine(cl[i])]

\* run_scenario as a function of the scenario: whether it raised, and the
\* trades it returned
run_scenario(sc, tracked, mc) ==
    LET ps == ConvertTraders(sc, 1, <<>>)
        cl == calculate_consensus(ps, tracked, mc)
    IN  TradeLoop(cl, 1, ps, sc.date, <<>>)

\* all_trades with the new trades put in front
ExtendFront(all, ts) == ts \o all

\* all_trades.extend(trades)
Extend(all, ts) == all \o ts

(***************************************************************************)
(* The configuration read from the environment.                            *)
(***************************************************************************)
\* A text is the sequence of its parts: a "," or a run of other characters.
EnvText(text) == [is_set |-> TRUE, text |-> text]

\* the default of TRACKED_SYMBOLS: "BTC,ETH,SOL,BNB,XRP,DOGE,TON,WLD,LINK,MATIC"
DefaultTrackedText ==
    <<"BTC", ",", "ETH", ",", "SOL", ",", "BNB", ",", "XRP", ",", "DOGE", ",",
      "TON", ",", "WLD", ",", "LINK", ",", "MATIC">>

\* os.getenv(name, default)
getenv(env, default) == IF env.is_set THEN env.text ELSE default

\* str.split(","): a piece for every separator and one more; the empty text
\* gives one empty piece
RECURSIVE SplitFrom(_, _, _)
SplitFrom(text, i, pieces) ==
    IF i > Len(text) THEN pieces
    ELSE IF text[i] = ","
    THEN SplitFrom(text, i + 1, Append(pieces, ""))
    ELSE SplitFrom(text, i + 1, [pieces EXCEPT ![Len(pieces)] = @ \o text[i]])

Split(text) == SplitFrom(text, 1, <<"">>)

\* config.TRACKED_SYMBOLS
TRACKED_SYMBOLS(env) == ListOf(Split(getenv(env, DefaultTrackedText)))

(***************************************************************************)
(* Inputs.                                                                 *)
(***************************************************************************)
\* the largest number of positions on one symbol whose percentages are fed to
\* the classifier
MaxTotal == 5

\* the longest list of positions of one trader
MaxPos == 2

\* config.py: MIN_CONSENSUS_PERCENT
DefaultMinConsensus == 60

Thresholds == {0, 20, 30, 50, DefaultMinConsensus, 70, 80, 100}

\* the (long_percent, short_percent) pairs calculate_consensus computes for
\* symbols of up to MaxTotal positions
ProducedPairs ==
    {<<Percent(x[1], x[2]), Percent(x[2] - x[1], x[2])>> :
        x \in {y \in (0..MaxTotal) \X (1..MaxTotal) : y[1] <= y[2]}}

PercentInputs ==
    {pr[1] : pr \in ProducedPairs}
    \cup {FromInt(k) : k \in {StrongThreshold - 1, StrongThreshold, StrongThreshold + 1}}

Position(symbol, side, entry_price, mark_price, pnl, leverage) ==
    [symbol |-> symbol, side |-> side, entry_price |-> entry_price,
     mark_price |-> mark_price, pnl |-> FromInt(pnl), roe |-> 0,
     leverage |-> leverage, update_time |-> 0]

PositionPool ==
    {Position("BTCUSDT", "LONG", 40000, 41000, 10, 2),
     Position("BTCUSDT", "SHORT", 40500, 41000, -7, 5),
     Position("ETHUSDT", "LONG", 2500, 2600, 3, 1),
     Position("SOLUSDT", "SHORT", 100, 95, 12, 10)}

PositionLists == UNION {[1..k -> PositionPool] : k \in 0..MaxPos}

\* snapshots of three traders whose positions of one side differ in leverage
\* and whose pnl is not the price difference
LeverageSnapshots ==
    {<<[uid |-> "uid1", plist |-> <<Position("BTCUSDT", "LONG", 40000, 41000, 10, 2),
                                    Position("BTCUSDT", "LONG", 40100, 41000, -4, 5)>>],
       [uid |-> "uid2", plist |-> <<Position("BTCUSDT", "LONG", 39000, 41000, 3, 20),
                                    Position("ETHUSDT", "SHORT", 2500, 2600, 12, 3)>>],
       [uid |-> "uid3", plist |-> <<Position("ETHUSDT", "SHORT", 2550, 2600, -1, 4)>>]>>,
     <<[uid |-> "uid1", plist |-> <<Position("SOLUSDT", "SHORT", 100, 95, 12, 1),
                                    Position("BTCUSDT", "LONG", 40000, 41000, 10, 125)>>],
       [uid |-> "uid2", plist |-> <<Position("SOLUSDT", "SHORT", 101, 95, 7, 2)>>],
       [uid |-> "uid3", plist |-> <<Position("SOLUSDT", "SHORT", 99, 95, -3, 2),
                                    Position("SOLUSDT", "LONG", 90, 95, 5, 10)>>]>>}

\* a snapshot: no trader at all, two traders with their lists, or one of
\* the three-trader snapshots
PositionInputs ==
    {<<>>} \cup {<<[uid |-> "uid1", plist |-> a], [uid |-> "uid2", plist |-> b]>> :
                    a \in PositionLists, b \in PositionLists}
           \cup LeverageSnapshots

TrackedInputs ==
    {NoneList, ListOf(<<>>), ListOf(<<"BTCUSDT">>), ListOf(<<"ETHUSDT", "BTCUSDT">>)}

\* test_data.py: MockTrader
MockTrader(encrypted_uid, nick_name, rank) ==
    [encrypted_uid |-> encrypted_uid, nick_name |-> nick_name, rank |-> rank]

\* the float a decimal literal n/d denotes
Dec(n, d) == FDiv(FromInt(n), FromInt(d))

\* test_data.py: MockPosition, the prices Python ints as in the built-in
\* scenarios, pnl a float
MockPosition(symbol, side, entry_price, exit_price, pnl) ==
    [symbol |-> symbol, side |-> side, entry_price |-> entry_price,
     exit_price |-> exit_price, entry_time |-> "opened", exit_time |-> "closed",
     pnl |-> pnl]

MockPositionPool ==
    {MockPosition("BTCUSDT", "LONG", 40000, 44000, FromInt(10)),
     MockPosition("BTCUSDT", "SHORT", 41000, 44000, FromInt(-7)),
     MockPosition("ETHUSDT", "SHORT", 2500, 2200, FromInt(12)),
     MockPosition("SOLUSDT", "LONG", 0, 98, FromInt(-2)),
     MockPosition("SOLUSDT", "SHORT", 0, 95, FromInt(4))}

MockPositionLists == UNION {[1..k -> MockPositionPool] : k \in 0..MaxPos}

\* the traders a scenario lists: both owners of positions, or the second only
TraderLists ==
    {<<MockTrader("t1", "ProTrader1", 1), MockTrader("t2", "CryptoKing", 2)>>,
     <<MockTrader("t2", "CryptoKing", 2)>>}

GeneratedScenarios ==
    {[name |-> "generated", date |-> "today", traders |-> ts,
      positions |-> <<[uid |-> "t1", plist |-> a], [uid |-> "t2", plist |-> b]>>,
      expected_consensus |-> <<>>] :
        ts \in TraderLists, a \in MockPositionLists, b \in MockPositionLists}

\* one position per trader, as every built-in scenario has it
OneEach(uids, ps) == [i \in 1..Len(uids) |-> [uid |-> uids[i], plist |-> <<ps[i]>>]]

get_scenario_1_btc_bull_run ==
    [name |-> "BTC Bull Run", date |-> "today",
     traders |-> <<MockTrader("t1", "ProTrader1", 1), MockTrader("t2", "CryptoKing", 2),
                   MockTrader("t3", "WhaleHunter", 3), MockTrader("t4", "AlphaBot", 4),
                   MockTrader("t5", "TrendMaster", 5)>>,
     positions |-> OneEach(<<"t1", "t2", "t3", "t4", "t5">>,
        <<MockPosition("BTCUSDT", "LONG", 40000, 44000, FromInt(10)),
          MockPosition("BTCUSDT", "LONG", 40200, 44000, Dec(945, 100)),
          MockPosition("BTCUSDT", "LONG", 39800, 44000, Dec(1055, 100)),
          MockPosition("BTCUSDT", "SHORT", 41000, 44000, Dec(-73, 10)),
          MockPosition("BTCUSDT", "LONG", 40500, 44000, Dec(86, 10))>>),
     expected_consensus |-> <<[symbol |-> "BTCUSDT", long_percent |-> FromInt(80)]>>]

\* the plain sum of the five SHORT pnl values is 61.300000000000004, the
\* compensated one 61.3; only total_short_pnl of the consensus record
\* carries it
get_scenario_2_eth_crash ==
    [name |-> "ETH Crash", date |-> "today",
     traders |-> <<MockTrader("t1", "BearMaster", 1), MockTrader("t2", "ShortKing", 2),
                   MockTrader("t3", "Doomer", 3), MockTrader("t4", "RektProof", 4),
                   MockTrader("t5", "Cautious", 5), MockTrader("t6", "Bullish", 6)>>,
     positions |-> OneEach(<<"t1", "t2", "t3", "t4", "t5", "t6">>,
        <<MockPosition("ETHUSDT", "SHORT", 2500, 2200, FromInt(12)),
          MockPosition("ETHUSDT", "SHORT", 2520, 2200, Dec(127, 10)),
          MockPosition("ETHUSDT", "SHORT", 2480, 2200, Dec(113, 10)),
          MockPosition("ETHUSDT", "SHORT", 2550, 2200, Dec(137, 10)),
          MockPosition("ETHUSDT", "SHORT", 2490, 2200, Dec(116, 10)),
          MockPosition("ETHUSDT", "LONG", 2450, 2200, Dec(-102, 10))>>),
     expected_consensus |-> <<[symbol |-> "ETHUSDT", long_percent |-> Dec(167, 10)]>>]

get_scenario_3_mixed_signals ==
    [name |-> "Mixed Signals", date |-> "today",
     traders |-> <<MockTrader("t1", "BullA", 1), MockTrader("t2", "BearA", 2),
                   MockTrader("t3", "BullB", 3), MockTrader("t4", "BearB", 4),
                   MockTrader("t5", "BullC", 5), MockTrader("t6", "BearC", 6)>>,
     positions |-> OneEach(<<"t1", "t2", "t3", "t4", "t5", "t6">>,
        <<MockPosition("SOLUSDT", "LONG", 100, 98, FromInt(-2)),
          MockPosition("SOLUSDT", "SHORT", 102, 98, Dec(39, 10)),
          MockPosition("SOLUSDT", "LONG", 101, 98, FromInt(-3)),
          MockPosition("SOLUSDT", "SHORT", 103, 98, Dec(49, 10)),
          MockPosition("SOLUSDT", "LONG", 99, 98, FromInt(-1)),
          MockPosition("SOLUSDT", "SHORT", 100, 98, FromInt(2))>>),
     expected_consensus |-> <<[symbol |-> "SOLUSDT", long_percent |-> FromInt(50)]>>]

get_all_scenarios ==
    <<get_scenario_1_btc_bull_run, get_scenario_2_eth_crash,
      get_scenario_3_mixed_signals>>

ScenarioInputs ==
    GeneratedScenarios \cup {get_all_scenarios[i] : i \in 1..Len(get_all_scenarios)}

\* the longest list of trades given to _calculate_metrics
MaxTrades == 4

\* trades as run_scenario builds them, with pnl 10, -5, -8, 3, 0 and -99.8
TradePool ==
    {MakeTrade("BTCUSDT", "BUY", FromInt(100), FromInt(110), "today"),
     MakeTrade("BTCUSDT", "BUY", FromInt(100), FromInt(95), "today"),
     MakeTrade("ETHUSDT", "STRONG_BUY", FromInt(100), FromInt(92), "today"),
     MakeTrade("ETHUSDT", "SELL", FromInt(103), FromInt(100), "today"),
     MakeTrade("SOLUSDT", "STRONG_SELL", FromInt(100), FromInt(100), "today"),
     MakeTrade("SOLUSDT", "BUY", FromInt(100), Dec(2, 10), "today")}

TradeInputs == UNION {[1..k -> TradePool] : k \in 0..MaxTrades}

\* the variables of a call that has not been made
NoScenario ==
    [name |-> "none", date |-> "none", traders |-> <<>>, positions |-> <<>>,
     expected_consensus |-> <<>>]

NoResult == [total_trades |-> -1]

NoReport == <<>>

\* a call of the method c, the other methods' variables at rest
OthersIdle(c) ==
    /\ call = c
    /\ calls = <<>>
    /\ symbol_data = <<>>
    /\ strong_signals = <<>>
    /\ report = NoReport

\* an environment variable that is not set
EnvUnset == [is_set |-> FALSE, text |-> <<>>]

\* the application not started
AppIdle ==
    /\ env_tracked = EnvUnset
    /\ has_bot = FALSE
    /\ bot_is_running = FALSE
    /\ is_running = FALSE
    /\ tick = 0
    /\ scans = 0
    /\ sent = <<>>
    /\ stop_calls = 0
    /\ fired_pc = "none"
    /\ fired_scans = 0
    /\ stop_scans = -1
    /\ traders = <<>>
    /\ last_update = 0
    /\ scan_result = "none"
    /\ scan_trace = <<>>

\* run_all_scenarios not called
RunIdle ==
    /\ scenarios = <<>>
    /\ all_trades = <<>>
    /\ returned_trades = <<>>

(***************************************************************************)
(* The classifier called on its own.                                       *)
(***************************************************************************)
InitClassify ==
    /\ pc = "start"
    /\ min_consensus \in {FromInt(T) : T \in Thresholds}
    /\ long_percent \in PercentInputs
    /\ short_percent \in PercentInputs
    /\ signal = "none"
    /\ positions = <<>>
    /\ tracked_symbols = NoneList
    /\ consensus_list = <<>>
    /\ scenario = NoScenario
    /\ trades = <<>>
    /\ result = NoResult
    /\ OthersIdle("_get_signal")
    /\ RunIdle
    /\ AppIdle

GetSignal ==
    /\ pc = "start"
    /\ signal' = get_signal(long_percent, short_percent, min_consensus)
    /\ pc' = "returned"
    /\ UNCHANGED <<min_consensus, long_percent, short_percent,
                   positions, tracked_symbols, consensus_list,
                   scenario, trades, result>>
    /\ UNCHANGED other_vars
    /\ UNCHANGED run_vars
    /\ UNCHANGED app_vars

NextClassify == GetSignal

SpecClassify == InitClassify /\ [][NextClassify]_vars

(***************************************************************************)
(* The consensus engine called on a snapshot.                              *)
(***************************************************************************)
InitConsensus ==
    /\ pc = "start"
    /\ min_consensus = FromInt(DefaultMinConsensus)
    /\ long_percent = FZero
    /\ short_percent = FZero
    /\ signal = "none"
    /\ positions \in PositionInputs
    /\ tracked_symbols \in TrackedInputs
    /\ consensus_list = <<>>
    /\ scenario = NoScenario
    /\ trades = <<>>
    /\ result = NoResult
    /\ OthersIdle("calculate_consensus")
    /\ RunIdle
    /\ AppIdle

CalculateConsensus ==
    /\ pc = "start"
    /\ consensus_list' = calculate_consensus(positions, tracked_symbols, min_consensus)
    /\ pc' = "returned"
    /\ UNCHANGED <<min_consensus, long_percent, short_percent, signal,
                   positions, tracked_symbols, scenario, trades, result>>
    /\ UNCHANGED other_vars
    /\ UNCHANGED run_vars
    /\ UNCHANGED app_vars

NextConsensus == CalculateConsensus

SpecConsensus == InitConsensus /\ [][NextConsensus]_vars


(***************************************************************************)
(* The backtester run on one scenario.                                     *)
(***************************************************************************)
InitBacktest ==
    /\ pc = "start"
    /\ min_consensus = FromInt(BacktesterMinConsensus)
    /\ long_percent = FZero
    /\ short_percent = FZero
    /\ signal = "none"
    /\ positions = <<>>
    /\ tracked_symbols = NoneList
    /\ consensus_list = <<>>
    /\ scenario \in ScenarioInputs
    /\ trades = <<>>
    /\ result = NoResult
    /\ OthersIdle("run_scenario")
    /\ RunIdle
    /\ AppIdle

\* run_scenario: positions and consensus_list are its locals; after a
\* ZeroDivisionError the caller holds no trade list
RunScenario ==
    /\ pc = "start"
    /\ \E ps \in {ConvertTraders(scenario, 1, <<>>)} :
       \E cl \in {calculate_consensus(ps, tracked_symbols, min_consensus)} :
       \E out \in {TradeLoop(cl, 1, ps, scenario.date, <<>>)} :
           /\ positions' = ps
           /\ consensus_list' = cl
           /\ trades' = out.trades
           /\ pc' = IF out.raised THEN "raised" ELSE "returned"
    /\ UNCHANGED <<min_consensus, long_percent, short_percent, signal,
                   tracked_symbols, scenario, result>>
    /\ UNCHANGED other_vars
    /\ UNCHANGED run_vars
    /\ UNCHANGED app_vars

NextBacktest == RunScenario

SpecBacktest == InitBacktest /\ [][NextBacktest]_vars

(***************************************************************************)
(* The metrics computed over a list of trades.                             *)
(***************************************************************************)
InitMetrics ==
    /\ pc = "start"
    /\ min_consensus = FromInt(BacktesterMinConsensus)
    /\ long_percent = FZero
    /\ short_percent = FZero
    /\ signal = "none"
    /\ positions = <<>>
    /\ tracked_symbols = NoneList
    /\ consensus_list = <<>>
    /\ scenario = NoScenario
    /\ trades \in TradeInputs
    /\ result = NoResult
    /\ OthersIdle("_calculate_metrics")
    /\ RunIdle
    /\ AppIdle

CalculateMetrics ==
    /\ pc = "start"
    /\ result' = calculate_metrics(trades)
    /\ pc' = "returned"
    /\ UNCHANGED <<min_consensus, long_percent, short_percent, signal,
                   positions, tracked_symbols, consensus_list, scenario, trades>>
    /\ UNCHANGED other_vars
    /\ UNCHANGED run_vars
    /\ UNCHANGED app_vars

NextMetrics == CalculateMetrics

SpecMetrics == InitMetrics /\ [][NextMetrics]_vars


(***************************************************************************)
(* One engine called again and again.                                      *)
(***************************************************************************)
\* the most calls made on one engine
MaxCalls == 3

EngineSnapshots ==
    {<<>>,
     <<[uid |-> "uid1", plist |-> <<Position("BTCUSDT", "LONG", 40000, 41000, 10, 2)>>],
       [uid |-> "uid2", plist |-> <<Position("ETHUSDT", "LONG", 2500, 2600, 3, 1)>>]>>,
     <<[uid |-> "uid1", plist |-> <<Position("BTCUSDT", "SHORT", 40500, 41000, -7, 5),
                                    Position("BTCUSDT", "LONG", 40000, 41000, 10, 2)>>],
       [uid |-> "uid2", plist |-> <<Position("BTCUSDT", "SHORT", 40500, 41000, -7, 5)>>]>>}

EngineAllowlists == {NoneList, ListOf(<<"BTCUSDT">>)}

InitEngine ==
    /\ pc = "start"
    /\ min_consensus = FromInt(DefaultMinConsensus)
    /\ long_percent = FZero
    /\ short_percent = FZero
    /\ signal = "none"
    /\ positions = <<>>
    /\ tracked_symbols = NoneList
    /\ consensus_list = <<>>
    /\ scenario = NoScenario
    /\ trades = <<>>
    /\ result = NoResult
    /\ OthersIdle("calculate_consensus")
    /\ RunIdle
    /\ AppIdle

\* one more call of calculate_consensus on the same engine; the method writes
\* neither to self nor to its arguments
CallEngine ==
    /\ Len(calls) < MaxCalls
    /\ \E ps \in EngineSnapshots, tracked \in EngineAllowlists :
       \E out \in {calculate_consensus_from(symbol_data, ps, tracked, min_consensus)} :
           /\ positions' = ps
           /\ tracked_symbols' = tracked
           /\ symbol_data' = out.symbol_data
           /\ consensus_list' = out.consensus_list
           /\ calls' = Append(calls, [positions |-> ps,
                                      tracked_symbols |-> tracked,
                                      positions_after |-> ps,
                                      consensus_list |-> out.consensus_list])
    /\ pc' = "returned"
    /\ UNCHANGED <<min_consensus, long_percent, short_percent, signal,
                   scenario, trades, result, call, strong_signals, report>>
    /\ UNCHANGED run_vars
    /\ UNCHANGED app_vars

NextEngine == CallEngine

SpecEngine == InitEngine /\ [][NextEngine]_vars

(***************************************************************************)
(* The two views of a consensus list.                                      *)
(***************************************************************************)
\* the most records in a list given to the two views
MaxRecords == 6

Symbols ==
    <<"BTCUSDT", "ETHUSDT", "SOLUSDT", "BNBUSDT", "XRPUSDT", "DOGEUSDT", "TONUSDT",
      "WLDUSDT", "LINKUSDT", "MATICUSDT">>

\* the positions held on one symbol: two against one for LONG, one each, or
\* a single SHORT
Holdings(sym) ==
    {<<Position(sym, "LONG", 100, 101, 1, 1), Position(sym, "LONG", 100, 101, 1, 2),
       Position(sym, "SHORT", 100, 101, -1, 1)>>,
     <<Position(sym, "LONG", 100, 101, 1, 1), Position(sym, "SHORT", 100, 101, -1, 1)>>,
     <<Position(sym, "SHORT", 100, 101, -1, 3)>>}

\* the snapshots of one trader holding positions on the first n symbols
RECURSIVE HoldingLists(_)
HoldingLists(n) ==
    IF n = 0 THEN {<<>>}
    ELSE {l \o h : l \in HoldingLists(n - 1), h \in Holdings(Symbols[n])}

\* the lists calculate_consensus returns for them, of up to max records
ConsensusInputs(max) ==
    {calculate_consensus(<<[uid |-> "uid1", plist |-> l]>>, NoneList,
                         FromInt(DefaultMinConsensus)) :
        l \in UNION {HoldingLists(n) : n \in 0..max}}

InitReport ==
    /\ pc = "start"
    /\ min_consensus = FromInt(DefaultMinConsensus)
    /\ long_percent = FZero
    /\ short_percent = FZero
    /\ signal = "none"
    /\ positions = <<>>
    /\ tracked_symbols = NoneList
    /\ consensus_list \in ConsensusInputs(MaxRecords)
    /\ scenario = NoScenario
    /\ trades = <<>>
    /\ result = NoResult
    /\ call \in {"get_strong_signals", "format_consensus_report"}
    /\ calls = <<>>
    /\ symbol_data = <<>>
    /\ strong_signals = <<>>
    /\ report = NoReport
    /\ RunIdle
    /\ AppIdle

\* get_strong_signals builds a new list; its argument is only read
GetStrongSignals ==
    /\ pc = "start"
    /\ call = "get_strong_signals"
    /\ strong_signals' = get_strong_signals(consensus_list)
    /\ pc' = "returned"
    /\ UNCHANGED <<min_consensus, long_percent, short_percent, signal, positions,
                   tracked_symbols, consensus_list, scenario, trades, result,
                   call, calls, symbol_data, report>>
    /\ UNCHANGED run_vars
    /\ UNCHANGED app_vars

FormatConsensusReport ==
    /\ pc = "start"
    /\ call = "format_consensus_report"
    /\ report' = format_consensus_report(consensus_list)
    /\ pc' = "returned"
    /\ UNCHANGED <<min_consensus, long_percent, short_percent, signal, positions,
                   tracked_symbols, consensus_list, scenario, trades, result,
                   call, calls, symbol_data, strong_signals>>
    /\ UNCHANGED run_vars
    /\ UNCHANGED app_vars

NextReport == GetStrongSignals \/ FormatConsensusReport

SpecReport == InitReport /\ [][NextReport]_vars

(***************************************************************************)
(* One call of any of the four entry points.                               *)
(***************************************************************************)
\* scenarios that list traders without positions, or positions of nobody
BareScenarios ==
    {[name |-> "bare", date |-> "today", traders |-> ts, positions |-> ps,
      expected_consensus |-> <<>>] :
        ts \in TraderLists \cup {<<>>},
        ps \in {<<>>, <<[uid |-> "t1", plist |-> <<>>]>>,
                <<[uid |-> "t1", plist |-> <<>>], [uid |-> "t2", plist |-> <<>>]>>}}

CallScenarios == BareScenarios \cup {get_all_scenarios[i] : i \in 1..Len(get_all_scenarios)}

\* the lists given to the report: of no record, of one and of two
CallConsensusInputs == ConsensusInputs(2)

InitCallScenario ==
    /\ pc = "start"
    /\ min_consensus = FromInt(BacktesterMinConsensus)
    /\ long_percent = FZero
    /\ short_percent = FZero
    /\ signal = "none"
    /\ positions = <<>>
    /\ tracked_symbols = NoneList
    /\ consensus_list = <<>>
    /\ scenario \in CallScenarios
    /\ trades = <<>>
    /\ result = NoResult
    /\ OthersIdle("run_scenario")
    /\ RunIdle
    /\ AppIdle

InitCallReport ==
    /\ pc = "start"
    /\ min_consensus = FromInt(DefaultMinConsensus)
    /\ long_percent = FZero
    /\ short_percent = FZero
    /\ signal = "none"
    /\ positions = <<>>
    /\ tracked_symbols = NoneList
    /\ consensus_list \in CallConsensusInputs
    /\ scenario = NoScenario
    /\ trades = <<>>
    /\ result = NoResult
    /\ OthersIdle("format_consensus_report")
    /\ RunIdle
    /\ AppIdle

InitCalls == InitConsensus \/ InitCallReport \/ InitCallScenario \/ InitMetrics

NextCalls ==
    \/ call = "calculate_consensus" /\ CalculateConsensus
    \/ FormatConsensusReport
    \/ call = "run_scenario" /\ RunScenario
    \/ call = "_calculate_metrics" /\ CalculateMetrics

SpecCalls == InitCalls /\ [][NextCalls]_vars

(***************************************************************************)
(* The backtester run on a list of scenarios.                              *)
(***************************************************************************)
\* the longest list get_all_scenarios returns
MaxScenarios == 3

\* two trades whose consensus-list order (ETHUSDT with two positions first)
\* is not the order in which the symbols are met
TwoSymbolScenario ==
    [name |-> "two symbols", date |-> "today",
     traders |-> <<MockTrader("t1", "ProTrader1", 1), MockTrader("t2", "CryptoKing", 2)>>,
     positions |-> <<[uid |-> "t1", plist |-> <<MockPosition("BTCUSDT", "LONG", 40000, 44000, FromInt(10)),
                                                 MockPosition("ETHUSDT", "SHORT", 2500, 2200, FromInt(12))>>],
                     [uid |-> "t2", plist |-> <<MockPosition("ETHUSDT", "SHORT", 2500, 2200, FromInt(12))>>]>>,
     expected_consensus |-> <<>>]

\* a trade with an average entry price of 0
ZeroEntryScenario ==
    [name |-> "zero entry", date |-> "today",
     traders |-> <<MockTrader("t1", "ProTrader1", 1)>>,
     positions |-> <<[uid |-> "t1", plist |-> <<MockPosition("SOLUSDT", "LONG", 0, 98, FromInt(-2))>>]>>,
     expected_consensus |-> <<>>]

\* BTCUSDT, whose trade is built first, then SOLUSDT with an average entry
\* price of 0
LateZeroEntryScenario ==
    [name |-> "late zero entry", date |-> "today",
     traders |-> <<MockTrader("t1", "ProTrader1", 1)>>,
     positions |-> <<[uid |-> "t1", plist |-> <<MockPosition("BTCUSDT", "LONG", 40000, 44000, FromInt(10)),
                                                 MockPosition("SOLUSDT", "SHORT", 0, 95, FromInt(4))>>]>>,
     expected_consensus |-> <<>>]

\* SOLUSDT split evenly at an average entry price of 0, next to BTCUSDT
NeutralZeroEntryScenario ==
    [name |-> "neutral zero entry", date |-> "today",
     traders |-> <<MockTrader("t1", "ProTrader1", 1), MockTrader("t2", "CryptoKing", 2)>>,
     positions |-> <<[uid |-> "t1", plist |-> <<MockPosition("SOLUSDT", "LONG", 0, 98, FromInt(-2)),
                                                 MockPosition("BTCUSDT", "LONG", 40000, 44000, FromInt(10))>>],
                     [uid |-> "t2", plist |-> <<MockPosition("SOLUSDT", "SHORT", 0, 95, FromInt(4))>>]>>,
     expected_consensus |-> <<>>]

\* lists of one and two scenarios with entry prices of 0
ZeroEntryLists ==
    UNION {[1..k -> {TwoSymbolScenario, LateZeroEntryScenario, NeutralZeroEntryScenario}] :
              k \in 1..2}

ScenarioPool ==
    {get_scenario_1_btc_bull_run, get_scenario_3_mixed_signals,
     TwoSymbolScenario, ZeroEntryScenario}

\* what get_all_scenarios may return: the built-in list, and lists over the pool
ScenarioLists ==
    {get_all_scenarios} \cup UNION {[1..k -> ScenarioPool] : k \in 0..MaxScenarios}
                        \cup ZeroEntryLists

InitRunAll ==
    /\ pc = "loop"
    /\ min_consensus = FromInt(BacktesterMinConsensus)
    /\ long_percent = FZero
    /\ short_percent = FZero
    /\ signal = "none"
    /\ positions = <<>>
    /\ tracked_symbols = NoneList
    /\ consensus_list = <<>>
    /\ scenario = NoScenario
    /\ trades = <<>>
    /\ result = NoResult
    /\ OthersIdle("run_all_scenarios")
    /\ scenarios \in ScenarioLists
    /\ all_trades = <<>>
    /\ returned_trades = <<>>
    /\ AppIdle

\* one turn of the loop: run_scenario on the next scenario, then extend
RunNextScenario ==
    /\ pc = "loop"
    /\ Len(returned_trades) < Len(scenarios)
    /\ \E sc \in {scenarios[Len(returned_trades) + 1]} :
       \E out \in {run_scenario(sc, tracked_symbols, min_consensus)} :
           /\ scenario' = sc
           /\ trades' = out.trades
           /\ IF out.raised
              THEN /\ pc' = "raised"
                   /\ UNCHANGED <<all_trades, returned_trades>>
              ELSE /\ pc' = "loop"
                   /\ all_trades' = Extend(all_trades, out.trades)
                   /\ returned_trades' = Append(returned_trades, out.trades)
    /\ UNCHANGED <<min_consensus, long_percent, short_percent, signal, positions,
                   tracked_symbols, consensus_list, result, scenarios>>
    /\ UNCHANGED other_vars
    /\ UNCHANGED app_vars

\* after the loop: return self._calculate_metrics(all_trades)
ReturnMetrics ==
    /\ pc = "loop"
    /\ Len(returned_trades) = Len(scenarios)
    /\ result' = calculate_metrics(all_trades)
    /\ pc' = "returned"
    /\ UNCHANGED <<min_consensus, long_percent, short_percent, signal, positions,
                   tracked_symbols, consensus_list, scenario, trades>>
    /\ UNCHANGED other_vars
    /\ UNCHANGED run_vars
    /\ UNCHANGED app_vars

NextRunAll == RunNextScenario \/ ReturnMetrics

SpecRunAll == InitRunAll /\ [][NextRunAll]_vars

(***************************************************************************)
(* One engine called on a snapshot and on the same snapshot with the side  *)
(* of every position swapped.                                              *)
(***************************************************************************)
\* min_consensus_percent values: 50, 50.5 and thresholds up to 100
MirrorThresholds ==
    {FromInt(50), Dec(101, 2), FromInt(DefaultMinConsensus), FromInt(StrongThreshold),
     FromInt(80), FromInt(100)}

\* l LONG positions followed by s SHORT positions on one symbol
SidePositions(symbol, l, s) ==
    [i \in 1..(l + s) |->
        Position(symbol, IF i <= l THEN "LONG" ELSE "SHORT", 40000, 41000, i, i)]

\* two traders: up to MaxTotal positions on BTCUSDT, and up to two on
\* ETHUSDT; a trader without positions is not in the mapping
MirrorSnapshots ==
    {SelectSeq(<<[uid |-> "uid1", plist |-> SidePositions("BTCUSDT", x[1], x[2])],
                 [uid |-> "uid2", plist |-> SidePositions("ETHUSDT", x[3], x[4])]>>,
               LAMBDA e : e.plist # <<>>) :
        x \in {y \in (0..MaxTotal) \X (0..MaxTotal) \X (0..1) \X (0..1) :
                  y[1] + y[2] <= MaxTotal}}

\* the snapshot with LONG and SHORT exchanged in every position
SwapSides(ps) ==
    [t \in 1..Len(ps) |->
        [uid |-> ps[t].uid,
         plist |-> [j \in 1..Len(ps[t].plist) |->
                      [ps[t].plist[j] EXCEPT
                          !.side = IF @ = "LONG" THEN "SHORT" ELSE "LONG"]]]]

InitMirror ==
    /\ pc = "start"
    /\ min_consensus \in MirrorThresholds
    /\ long_percent = FZero
    /\ short_percent = FZero
    /\ signal = "none"
    /\ positions \in MirrorSnapshots
    /\ tracked_symbols = NoneList
    /\ consensus_list = <<>>
    /\ scenario = NoScenario
    /\ trades = <<>>
    /\ result = NoResult
    /\ OthersIdle("calculate_consensus")
    /\ RunIdle
    /\ AppIdle

\* calculate_consensus called on the snapshot, then on the swapped one
CallMirrored ==
    /\ pc \in {"start", "first"}
    /\ \E ps \in {IF pc = "start" THEN positions ELSE SwapSides(positions)} :
       \E cl \in {calculate_consensus(ps, tracked_symbols, min_consensus)} :
           /\ positions' = ps
           /\ consensus_list' = cl
           /\ calls' = Append(calls, [positions |-> ps,
                                      tracked_symbols |-> tracked_symbols,
                                      positions_after |-> ps,
                                      consensus_list |-> cl])
    /\ pc' = IF pc = "start" THEN "first" ELSE "returned"
    /\ UNCHANGED <<min_consensus, long_percent, short_percent, signal,
                   tracked_symbols, scenario, trades, result>>
    /\ UNCHANGED <<call, symbol_data, strong_signals, report>>
    /\ UNCHANGED run_vars
    /\ UNCHANGED app_vars

NextMirror == CallMirrored

SpecMirror == InitMirror /\ [][NextMirror]_vars

(***************************************************************************)
(* The application: run(), run_watch_mode() and run_single_scan() of       *)
(* ConsensusTrader, the signal handler and the bot's command handlers.     *)
(***************************************************************************)
\* the most scans begun in one run
MaxScans == 2

\* the turns of the sleep loop, config.UPDATE_INTERVAL_MINUTES * 60 in the code
SleepTicks == 2

\* an allowlist of the eight symbols of the wide snapshot
WideTrackedText ==
    <<"BTCUSDT", ",", "ETHUSDT", ",", "LTCUSDT", ",", "SOLUSDT", ",", "BNBUSDT", ",",
      "XRPUSDT", ",", "ADAUSDT", ",", "DOGEUSDT">>

EnvInputs ==
    {EnvUnset, EnvText(<<>>), EnvText(<<"BTCUSDT">>),
     EnvText(<<"ETHUSDT", ",", "BTCUSDT">>), EnvText(WideTrackedText)}

\* a snapshot of eight symbols: BTCUSDT at 2 of 3 long, ETHUSDT at 2 of 3
\* short, LTCUSDT split, and five symbols held by one trader on one side
WideSnapshot ==
    <<[uid |-> "uid1", plist |-> <<Position("BTCUSDT", "LONG", 40000, 41000, 10, 2),
                                   Position("ETHUSDT", "LONG", 2500, 2600, 3, 1),
                                   Position("LTCUSDT", "LONG", 70, 72, 2, 3),
                                   Position("SOLUSDT", "SHORT", 100, 95, 12, 10),
                                   Position("BNBUSDT", "LONG", 300, 310, 4, 2),
                                   Position("XRPUSDT", "LONG", 1, 2, 6, 5),
                                   Position("ADAUSDT", "SHORT", 2, 1, 5, 3),
                                   Position("DOGEUSDT", "LONG", 1, 3, 7, 4)>>],
      [uid |-> "uid2", plist |-> <<Position("BTCUSDT", "LONG", 40100, 41000, 8, 5),
                                   Position("ETHUSDT", "SHORT", 2550, 2600, -1, 4),
                                   Position("LTCUSDT", "SHORT", 71, 72, -1, 2)>>],
      [uid |-> "uid3", plist |-> <<Position("BTCUSDT", "SHORT", 40200, 41000, -5, 3),
                                   Position("ETHUSDT", "SHORT", 2560, 2600, -2, 2)>>]>>

\* what the scraper brings back: no trader, an exception, or a snapshot
ScanOutcomes ==
    {[kind |-> "no_traders", positions |-> <<>>],
     [kind |-> "raised", positions |-> <<>>],
     [kind |-> "ok", positions |->
        <<[uid |-> "uid1", plist |-> <<Position("BTCUSDT", "LONG", 40000, 41000, 10, 2),
                                       Position("ETHUSDT", "LONG", 2500, 2600, 3, 1)>>],
          [uid |-> "uid2", plist |-> <<Position("BTCUSDT", "LONG", 40100, 41000, 8, 5),
                                       Position("ETHUSDT", "SHORT", 2550, 2600, -1, 4)>>]>>],
     [kind |-> "ok", positions |->
        <<[uid |-> "uid1", plist |-> <<Position("SOLUSDT", "SHORT", 100, 95, 12, 10)>>]>>],
     [kind |-> "ok", positions |-> WideSnapshot]}

\* the variables the application leaves alone
rest_vars ==
    <<min_consensus, long_percent, short_percent, signal, scenario, trades, result,
      call, calls, symbol_data>>

\* the locals of run_single_scan
scan_vars == <<positions, tracked_symbols, consensus_list, strong_signals, report>>

InitWatch ==
    /\ pc = "run"
    /\ min_consensus = FromInt(DefaultMinConsensus)
    /\ long_percent = FZero
    /\ short_percent = FZero
    /\ signal = "none"
    /\ positions = <<>>
    /\ tracked_symbols = NoneList
    /\ consensus_list = <<>>
    /\ scenario = NoScenario
    /\ trades = <<>>
    /\ result = NoResult
    /\ OthersIdle("run")
    /\ RunIdle
    /\ env_tracked \in EnvInputs
    /\ has_bot \in BOOLEAN
    /\ bot_is_running = FALSE
    /\ is_running = FALSE
    /\ tick = 0
    /\ scans = 0
    /\ sent = <<>>
    /\ stop_calls = 0
    /\ fired_pc = "none"
    /\ fired_scans = 0
    /\ stop_scans = -1
    /\ traders = <<>>
    /\ last_update = 0
    /\ scan_result = "none"
    /\ scan_trace = <<>>

\* run(): if self.bot: await self.bot.start_async()
StartBot ==
    /\ pc = "run"
    /\ pc' = "watch"
    /\ bot_is_running' = has_bot
    /\ UNCHANGED <<env_tracked, has_bot, is_running, tick, scans, sent, stop_calls,
                   fired_pc, fired_scans, stop_scans>>
    /\ UNCHANGED <<rest_vars, scan_vars, run_vars>>
    /\ UNCHANGED scan_course

\* run_watch_mode: self.is_running = True, then the handler is registered
EnterWatch ==
    /\ pc = "watch"
    /\ pc' = "while_test"
    /\ is_running' = TRUE
    /\ UNCHANGED <<env_tracked, has_bot, bot_is_running, tick, scans, sent, stop_calls,
                   fired_pc, fired_scans, stop_scans>>
    /\ UNCHANGED <<rest_vars, scan_vars, run_vars>>
    /\ UNCHANGED scan_course

\* while self.is_running:
WhileTest ==
    /\ pc = "while_test"
    /\ is_running => scans < MaxScans
    /\ pc' = IF is_running THEN "call_scan" ELSE "finally"
    /\ UNCHANGED app_vars
    /\ UNCHANGED <<rest_vars, scan_vars, run_vars>>

\* await self.run_single_scan(): the call
ScanStart ==
    /\ pc = "call_scan"
    /\ pc' = "fetching"
    /\ scans' = scans + 1
    /\ traders' = <<>>
    /\ scan_result' = "none"
    /\ scan_trace' = <<>>
    /\ UNCHANGED <<env_tracked, has_bot, bot_is_running, is_running, tick, sent,
                   stop_calls, fired_pc, fired_scans, stop_scans, last_update>>
    /\ UNCHANGED <<rest_vars, scan_vars, run_vars>>

\* a function given as the table of its values, each computed once
Tabulated(f) == f @@ <<>>

\* config.TRACKED_SYMBOLS for every environment value
ConfigTracked == Tabulated([env \in EnvInputs |-> TRACKED_SYMBOLS(env)])

\* calculate_consensus(traders, positions, tracked_symbols=config.TRACKED_SYMBOLS)
\* for every environment value and every snapshot the scraper brings back
ScanConsensus ==
    Tabulated([env \in EnvInputs, got \in ScanOutcomes |->
                  calculate_consensus(got.positions, ConfigTracked[env],
                                      FromInt(DefaultMinConsensus))])

\* the messages of a scan that alerts for every record get_strong_signals
\* returns
ScanMessagesAllActionable(cl) ==
    LET strong == get_strong_signals(cl)
    IN  <<[kind |-> "report", symbol |-> ""]>>
        \o [i \in 1..Len(strong) |-> [kind |-> "strong_signal", symbol |-> strong[i].symbol]]

\* the messages of one scan: the report, then an alert for each STRONG_BUY
\* and STRONG_SELL record
ScanMessages(cl) ==
    LET strong == SelectSeq(get_strong_signals(cl),
                            LAMBDA c : c.signal \in {"STRONG_BUY", "STRONG_SELL"})
    IN  <<[kind |-> "report", symbol |-> ""]>>
        \o [i \in 1..Len(strong) |-> [kind |-> "strong_signal", symbol |-> strong[i].symbol]]

\* what run_single_scan computes from a consensus list when the bot runs
ScanSends ==
    Tabulated([cl \in {ScanConsensus[env, got] : env \in EnvInputs, got \in ScanOutcomes} |->
                  [report |-> format_consensus_report(cl),
                   strong_signals |-> get_strong_signals(cl),
                   messages |-> ScanMessages(cl)]])

\* the calls of run_single_scan up to the test of the bot
FetchCalls == <<"get_top_traders", "get_all_positions", "calculate_consensus",
                "print_consensus">>

\* where a scan that got its positions may still raise before the test of
\* the bot
RaisePoints == {"none", "print_consensus"}

\* the uids of a snapshot's traders
Uids(ps) == [i \in 1..Len(ps) |-> ps[i].uid]

\* run_single_scan with self.last_update = datetime.now() moved in front of
\* the try statement
ScanFetchStampFirst ==
    /\ pc = "fetching"
    /\ last_update' = scans
    /\ \E got \in ScanOutcomes, raise_at \in RaisePoints :
          IF got.kind = "no_traders"
          THEN /\ raise_at = "none"
               /\ traders' = <<>>
               /\ scan_trace' = Take(FetchCalls, 1)
               /\ scan_result' = "False"
               /\ pc' = "after_scan"
               /\ UNCHANGED scan_vars
          ELSE IF got.kind = "raised"
          THEN /\ raise_at = "none"
               /\ traders' = <<"uid1">>
               /\ scan_trace' = Append(Take(FetchCalls, 2), "except")
               /\ scan_result' = "False"
               /\ pc' = "after_scan"
               /\ UNCHANGED scan_vars
          ELSE /\ traders' = Uids(got.positions)
               /\ positions' = got.positions
               /\ tracked_symbols' = ConfigTracked[env_tracked]
               /\ consensus_list' = ScanConsensus[env_tracked, got]
               /\ UNCHANGED <<strong_signals, report>>
               /\ IF raise_at # "none"
                  THEN /\ scan_trace' = Append(FetchCalls, "except")
                       /\ scan_result' = "False"
                       /\ pc' = "after_scan"
                  ELSE /\ scan_trace' = FetchCalls
                       /\ scan_result' = IF has_bot /\ bot_is_running THEN "none"
                                         ELSE "True"
                       /\ pc' = IF has_bot /\ bot_is_running THEN "sending"
                                ELSE "after_scan"
    /\ UNCHANGED <<env_tracked, has_bot, bot_is_running, is_running, tick, scans, sent,
                   stop_calls, fired_pc, fired_scans, stop_scans>>
    /\ UNCHANGED <<rest_vars, run_vars>>

\* run_single_scan up to the test of the bot: the scraper's calls, which
\* block, calculate_consensus with config.TRACKED_SYMBOLS and
\* print_consensus; without a running bot the scan ends here
ScanFetch ==
    /\ pc = "fetching"
    /\ \E got \in ScanOutcomes, raise_at \in RaisePoints :
          IF got.kind = "no_traders"
          THEN /\ raise_at = "none"
               /\ traders' = <<>>
               /\ scan_trace' = Take(FetchCalls, 1)
               /\ scan_result' = "False"
               /\ pc' = "after_scan"
               /\ UNCHANGED <<scan_vars, last_update>>
          ELSE IF got.kind = "raised"
          THEN /\ raise_at = "none"
               /\ traders' = <<"uid1">>
               /\ scan_trace' = Append(Take(FetchCalls, 2), "except")
               /\ scan_result' = "False"
               /\ pc' = "after_scan"
               /\ UNCHANGED <<scan_vars, last_update>>
          ELSE /\ traders' = Uids(got.positions)
               /\ positions' = got.positions
               /\ tracked_symbols' = ConfigTracked[env_tracked]
               /\ consensus_list' = ScanConsensus[env_tracked, got]
               /\ UNCHANGED <<strong_signals, report>>
               /\ IF raise_at # "none"
                  THEN /\ scan_trace' = Append(FetchCalls, "except")
                       /\ scan_result' = "False"
                       /\ pc' = "after_scan"
                       /\ UNCHANGED last_update
                  ELSE /\ scan_trace' = FetchCalls
                       /\ scan_result' = IF has_bot /\ bot_is_running THEN "none"
                                         ELSE "True"
                       /\ last_update' = IF has_bot /\ bot_is_running THEN last_update
                                         ELSE scans
                       /\ pc' = IF has_bot /\ bot_is_running THEN "sending"
                                ELSE "after_scan"
    /\ UNCHANGED <<env_tracked, has_bot, bot_is_running, is_running, tick, scans, sent,
                   stop_calls, fired_pc, fired_scans, stop_scans>>
    /\ UNCHANGED <<rest_vars, run_vars>>

\* run_single_scan after the test of the bot: send_consensus_alert and
\* send_strong_signal
ScanSend ==
    /\ pc = "sending"
    /\ \E out \in {ScanSends[consensus_list]} :
          /\ report' = out.report
          /\ strong_signals' = out.strong_signals
          /\ sent' = sent \o [i \in 1..Len(out.messages) |->
                                [scan |-> scans,
                                 kind |-> out.messages[i].kind,
                                 symbol |-> out.messages[i].symbol]]
          /\ scan_trace' = scan_trace
                           \o <<"format_consensus_report", "send_consensus_alert",
                                "get_strong_signals">>
                           \o [i \in 1..(Len(out.messages) - 1) |->
                                 "send_strong_signal"]
    /\ last_update' = scans
    /\ scan_result' = "True"
    /\ pc' = "after_scan"
    /\ UNCHANGED <<env_tracked, has_bot, bot_is_running, is_running, tick, scans,
                   stop_calls, fired_pc, fired_scans, stop_scans, traders>>
    /\ UNCHANGED <<positions, tracked_symbols, consensus_list>>
    /\ UNCHANGED <<rest_vars, run_vars>>

\* if self.is_running: before the sleep loop
AfterScanTest ==
    /\ pc = "after_scan"
    /\ pc' = IF is_running THEN "sleep_test" ELSE "while_test"
    /\ tick' = 0
    /\ UNCHANGED <<env_tracked, has_bot, bot_is_running, is_running, scans, sent,
                   stop_calls, fired_pc, fired_scans, stop_scans>>
    /\ UNCHANGED <<rest_vars, scan_vars, run_vars>>
    /\ UNCHANGED scan_course

\* a sleep loop that does not look at is_running
SleepTestNoBreak ==
    /\ pc = "sleep_test"
    /\ pc' = IF tick < SleepTicks THEN "sleeping" ELSE "while_test"
    /\ UNCHANGED app_vars
    /\ UNCHANGED <<rest_vars, scan_vars, run_vars>>

\* for _ in range(...): if not self.is_running: break
SleepTest ==
    /\ pc = "sleep_test"
    /\ pc' = IF tick < SleepTicks /\ is_running THEN "sleeping" ELSE "while_test"
    /\ UNCHANGED app_vars
    /\ UNCHANGED <<rest_vars, scan_vars, run_vars>>

\* await asyncio.sleep(1)
SleepTick ==
    /\ pc = "sleeping"
    /\ pc' = "sleep_test"
    /\ tick' = tick + 1
    /\ UNCHANGED <<env_tracked, has_bot, bot_is_running, is_running, scans, sent,
                   stop_calls, fired_pc, fired_scans, stop_scans>>
    /\ UNCHANGED <<rest_vars, scan_vars, run_vars>>
    /\ UNCHANGED scan_course

\* run(): finally: if self.bot: await self.bot.stop_async()
StopBot ==
    /\ pc = "finally"
    /\ pc' = "done"
    /\ stop_calls' = IF has_bot THEN stop_calls + 1 ELSE stop_calls
    /\ bot_is_running' = FALSE
    /\ UNCHANGED <<env_tracked, has_bot, is_running, tick, scans, sent,
                   fired_pc, fired_scans, stop_scans>>
    /\ UNCHANGED <<rest_vars, scan_vars, run_vars>>
    /\ UNCHANGED scan_course

\* where signal_handler is registered and the process alive
Registered ==
    {"while_test", "call_scan", "fetching", "sending", "after_scan", "sleep_test",
     "sleeping", "finally"}

\* signal_handler, run by the interpreter between two instructions
SignalHandler ==
    /\ pc \in Registered
    /\ is_running' = FALSE
    /\ fired_pc' = IF fired_pc = "none" THEN pc ELSE fired_pc
    /\ fired_scans' = IF fired_pc = "none" THEN scans ELSE fired_scans
    /\ UNCHANGED <<pc, env_tracked, has_bot, bot_is_running, tick, scans, sent,
                   stop_calls, stop_scans>>
    /\ UNCHANGED <<rest_vars, scan_vars, run_vars>>
    /\ UNCHANGED scan_course

\* where the main coroutine awaits and the bot's handlers can run
AwaitPoints == {"sending", "sleeping"}

\* cmd_stop: a reply and nothing else
CmdStop ==
    /\ has_bot
    /\ pc \in AwaitPoints
    /\ stop_scans' = scans
    /\ UNCHANGED <<pc, env_tracked, has_bot, bot_is_running, is_running, tick, scans,
                   sent, stop_calls, fired_pc, fired_scans>>
    /\ UNCHANGED <<rest_vars, scan_vars, run_vars>>
    /\ UNCHANGED scan_course

\* cmd_start: a reply and nothing else
CmdStart ==
    /\ has_bot
    /\ pc \in AwaitPoints
    /\ stop_scans' = -1
    /\ UNCHANGED <<pc, env_tracked, has_bot, bot_is_running, is_running, tick, scans,
                   sent, stop_calls, fired_pc, fired_scans>>
    /\ UNCHANGED <<rest_vars, scan_vars, run_vars>>
    /\ UNCHANGED scan_course

\* the steps of the main coroutine
MainStep ==
    \/ StartBot
    \/ EnterWatch
    \/ WhileTest
    \/ ScanStart
    \/ ScanFetch
    \/ ScanSend
    \/ AfterScanTest
    \/ SleepTest
    \/ SleepTick
    \/ StopBot

NextWatch == MainStep \/ SignalHandler \/ CmdStop \/ CmdStart

\* The main coroutine always takes its next step: the scraper's requests
\* carry timeouts, asyncio.sleep(1) returns, and the sends catch their
\* exceptions.
SpecWatch == InitWatch /\ [][NextWatch]_vars /\ WF_vars(MainStep)

(***************************************************************************)
(* Properties of the classifier.                                           *)
(***************************************************************************)
Strong == FromInt(StrongThreshold)

Hundred == FromInt(100)

\* C1: _get_signal is the ordered first-match function: STRONG_BUY if
\* long_percent >= 70, else BUY if long_percent >= T, else STRONG_SELL if
\* short_percent >= 70, else SELL if short_percent >= T, else NEUTRAL; a
\* long_percent of exactly 70 gives STRONG_BUY for every T.
C1_FirstMatch ==
    pc = "returned" =>
        /\ FGe(long_percent, Strong) => signal = "STRONG_BUY"
        /\ FLt(long_percent, Strong) /\ FGe(long_percent, min_consensus)
            => signal = "BUY"
        /\ FLt(long_percent, Strong) /\ FLt(long_percent, min_consensus)
           /\ FGe(short_percent, Strong)
            => signal = "STRONG_SELL"
        /\ FLt(long_percent, Strong) /\ FLt(long_percent, min_consensus)
           /\ FLt(short_percent, Strong) /\ FGe(short_percent, min_consensus)
            => signal = "SELL"
        /\ FLt(long_percent, Strong) /\ FLt(long_percent, min_consensus)
           /\ FLt(short_percent, Strong) /\ FLt(short_percent, min_consensus)
            => signal = "NEUTRAL"
        /\ long_percent = Strong => signal = "STRONG_BUY"

\* long_percent is exactly 70 while the short side passes a threshold above 70
C1_Witness ==
    /\ pc = "returned"
    /\ long_percent = Strong
    /\ FGt(min_consensus, Strong)
    /\ FGe(short_percent, min_consensus)
    /\ signal = "STRONG_BUY"

\* the pair was computed by calculate_consensus and sums to 100 exactly
Complementary ==
    /\ <<long_percent, short_percent>> \in ProducedPairs
    /\ FAdd(long_percent, short_percent) = Hundred

\* C2 as stated: for every T and every complementary pair each clause holds
\* on its own: long_percent >= 70 gives STRONG_BUY, T <= long_percent < 70
\* gives BUY, short_percent >= 70 gives STRONG_SELL, T <= short_percent < 70
\* gives SELL, and NEUTRAL is returned when none of the four holds.
C2_EachClauseAlone ==
    pc = "returned" /\ Complementary =>
        /\ FGe(long_percent, Strong) => signal = "STRONG_BUY"
        /\ FGe(long_percent, min_consensus) /\ FLt(long_percent, Strong)
            => signal = "BUY"
        /\ FGe(short_percent, Strong) => signal = "STRONG_SELL"
        /\ FGe(short_percent, min_consensus) /\ FLt(short_percent, Strong)
            => signal = "SELL"
        /\ ~FGe(long_percent, Strong)
           /\ ~(FGe(long_percent, min_consensus) /\ FLt(long_percent, Strong))
           /\ ~FGe(short_percent, Strong)
           /\ ~(FGe(short_percent, min_consensus) /\ FLt(short_percent, Strong))
            => signal = "NEUTRAL"

\* C2 amended: the two short-side clauses hold when long_percent < T; the
\* other clauses hold as stated.
C2_ClausesLongFirst ==
    pc = "returned" /\ Complementary =>
        /\ FGe(long_percent, Strong) => signal = "STRONG_BUY"
        /\ FGe(long_percent, min_consensus) /\ FLt(long_percent, Strong)
            => signal = "BUY"
        /\ FGe(short_percent, Strong) /\ FLt(long_percent, min_consensus)
            => signal = "STRONG_SELL"
        /\ FGe(short_percent, min_consensus) /\ FLt(short_percent, Strong)
           /\ FLt(long_percent, min_consensus)
            => signal = "SELL"
        /\ ~FGe(long_percent, Strong)
           /\ ~(FGe(long_percent, min_consensus) /\ FLt(long_percent, Strong))
           /\ ~FGe(short_percent, Strong)
           /\ ~(FGe(short_percent, min_consensus) /\ FLt(short_percent, Strong))
            => signal = "NEUTRAL"

\* a complementary pair whose short side is at 70 or more while the long side
\* passes a low threshold: BUY is returned
C2_Witness ==
    /\ pc = "returned"
    /\ Complementary
    /\ FGe(short_percent, Strong)
    /\ FGe(long_percent, min_consensus)
    /\ signal = "BUY"

(***************************************************************************)
(* Properties of calculate_consensus.                                      *)
(***************************************************************************)
Records == {consensus_list[k] : k \in 1..Len(consensus_list)}

\* the (uid, position) pairs of the snapshot, in iteration order
Pairs == Flatten(positions)

\* the pairs of one symbol and side, in iteration order
PairsOf(symbol, side) ==
    SelectSeq(Pairs, LAMBDA e : e.pos.symbol = symbol /\ e.pos.side = side)

SnapshotSymbols == {Pairs[i].pos.symbol : i \in 1..Len(Pairs)}

Epsilon == FDiv(FromInt(1), FromInt(10 ^ 9))

\* C3 as stated: every returned record has total_count = long_count +
\* short_count, total_count > 0 and long_percent + short_percent = 100.
C3_SumIsHundred ==
    pc = "returned" =>
        \A c \in Records :
            /\ c.total_count = c.long_count + c.short_count
            /\ c.total_count > 0
            /\ FAdd(c.long_percent, c.short_percent) = Hundred

\* C3 amended: every returned record has total_count = long_count +
\* short_count and total_count > 0, and long_percent + short_percent is
\* within 1e-9 of 100; no record with total_count = 0 is returned.
C3_SumNearHundred ==
    pc = "returned" =>
        \A c \in Records :
            /\ c.total_count = c.long_count + c.short_count
            /\ c.total_count > 0
            /\ FLe(FAbs(FSub(FAdd(c.long_percent, c.short_percent), Hundred)), Epsilon)

\* a record whose percentages do not sum to 100, next to a symbol all of whose
\* positions the allowlist discarded
C3_Witness ==
    /\ pc = "returned"
    /\ \E c \in Records : FAdd(c.long_percent, c.short_percent) # Hundred
    /\ Truthy(tracked_symbols)
    /\ \E sym \in SnapshotSymbols : ~InList(sym, tracked_symbols.items)

\* C4: with a non-empty allowlist every returned symbol is a member and the
\* positions of other symbols enter no count, leverage or PnL aggregate: each
\* record aggregates exactly the positions of its own symbol; without an
\* allowlist (None) every symbol of the snapshot is returned exactly once.
C4_Allowlist ==
    pc = "returned" =>
        /\ Truthy(tracked_symbols) =>
            \A c \in Records : InList(c.symbol, tracked_symbols.items)
        /\ \A c \in Records :
            LET longs  == PairsOf(c.symbol, "LONG")
                shorts == PairsOf(c.symbol, "SHORT")
            IN  /\ c.long_count = Len(longs)
                /\ c.short_count = Len(shorts)
                /\ c.total_long_pnl = FSum([i \in 1..Len(longs) |-> longs[i].pos.pnl])
                /\ c.total_short_pnl = FSum([i \in 1..Len(shorts) |-> shorts[i].pos.pnl])
                /\ c.avg_leverage_long
                    = AvgLeverage([i \in 1..Len(longs) |-> longs[i].pos.leverage])
                /\ c.avg_leverage_short
                    = AvgLeverage([i \in 1..Len(shorts) |-> shorts[i].pos.leverage])
        /\ tracked_symbols.is_none =>
            \A sym \in SnapshotSymbols :
                Cardinality({k \in 1..Len(consensus_list) :
                                consensus_list[k].symbol = sym}) = 1

\* an allowlist that keeps one symbol of the snapshot and discards another
C4_Witness ==
    /\ pc = "returned"
    /\ Truthy(tracked_symbols)
    /\ consensus_list # <<>>
    /\ \E sym \in SnapshotSymbols : ~InList(sym, tracked_symbols.items)

\* the place of the first position of a symbol in the iteration
FirstSeen(symbol) ==
    CHOOSE i \in 1..Len(Pairs) :
        /\ Pairs[i].pos.symbol = symbol
        /\ \A j \in 1..(i - 1) : Pairs[j].pos.symbol # symbol

\* C10: the returned list is ordered by total_count descending, and records
\* of equal total_count are in the order their symbols were first met.
C10_Ordered ==
    pc = "returned" =>
        \A i, j \in 1..Len(consensus_list) :
            i < j =>
                \/ consensus_list[i].total_count > consensus_list[j].total_count
                \/ /\ consensus_list[i].total_count = consensus_list[j].total_count
                   /\ FirstSeen(consensus_list[i].symbol)
                        < FirstSeen(consensus_list[j].symbol)

\* three records: the first has more positions and was met later than the
\* second, the second and third tie
C10_Witness ==
    /\ pc = "returned"
    /\ Len(consensus_list) = 3
    /\ consensus_list[1].total_count > consensus_list[2].total_count
    /\ consensus_list[2].total_count = consensus_list[3].total_count
    /\ FirstSeen(consensus_list[1].symbol) > FirstSeen(consensus_list[2].symbol)

(***************************************************************************)
(* Properties of run_scenario.                                             *)
(***************************************************************************)
Actionable == {"STRONG_BUY", "BUY", "STRONG_SELL", "SELL"}

TradesOf(symbol) == {i \in 1..Len(trades) : trades[i].symbol = symbol}

\* C5: when run_scenario returns, every symbol of the consensus with an
\* actionable signal has exactly one Trade, a NEUTRAL symbol has none, and no
\* Trade is for another symbol; the Trade is LONG exactly for STRONG_BUY and
\* BUY, SHORT exactly for STRONG_SELL and SELL, carries the symbol's signal,
\* and both its timestamps are the scenario date.
C5_OneTradePerActionable ==
    pc = "returned" =>
        /\ \A k \in 1..Len(consensus_list) :
            LET c == consensus_list[k]
            IN  IF c.signal \in Actionable
                THEN /\ Cardinality(TradesOf(c.symbol)) = 1
                     /\ \A i \in TradesOf(c.symbol) :
                            /\ trades[i].side = "LONG" <=> c.signal \in {"STRONG_BUY", "BUY"}
                            /\ trades[i].side = "SHORT" <=> c.signal \in {"STRONG_SELL", "SELL"}
                            /\ trades[i].signal = c.signal
                            /\ trades[i].entry_time = scenario.date
                            /\ trades[i].exit_time = scenario.date
                ELSE /\ c.signal = "NEUTRAL"
                     /\ TradesOf(c.symbol) = {}
        /\ \A i \in 1..Len(trades) :
            \E k \in 1..Len(consensus_list) : consensus_list[k].symbol = trades[i].symbol

\* a LONG trade, a SHORT trade and a NEUTRAL symbol in one returned scenario
C5_Witness ==
    /\ pc = "returned"
    /\ \E i \in 1..Len(trades) : trades[i].side = "LONG"
    /\ \E i \in 1..Len(trades) : trades[i].side = "SHORT"
    /\ \E k \in 1..Len(consensus_list) : consensus_list[k].signal = "NEUTRAL"

ListedUids == {scenario.traders[i].encrypted_uid : i \in 1..Len(scenario.traders)}

\* where the scenario holds the positions of a symbol that listed traders own
ScenarioPositions(symbol) ==
    UNION {{<<k, j>> : j \in {h \in 1..Len(scenario.positions[k].plist) :
                                scenario.positions[k].plist[h].symbol = symbol}} :
           k \in {h \in 1..Len(scenario.positions) :
                    scenario.positions[h].uid \in ListedUids}}

MockAt(x) == scenario.positions[x[1]].plist[x[2]]

RECURSIVE EntrySum(_)
EntrySum(S) ==
    IF S = {} THEN 0
    ELSE LET x == CHOOSE y \in S : TRUE
         IN  MockAt(x).entry_price + EntrySum(S \ {x})

RECURSIVE ExitSum(_)
ExitSum(S) ==
    IF S = {} THEN 0
    ELSE LET x == CHOOSE y \in S : TRUE
         IN  MockAt(x).exit_price + ExitSum(S \ {x})

\* C6: every trade's entry and exit price are the means of the entry and of
\* the exit prices over all positions of its symbol, both sides, owned by
\* listed traders; pnl is exit - entry for LONG and entry - exit for SHORT,
\* pnl_percent is pnl / avg_entry * 100; the ETH crash scenario returns one
\* SHORT trade with pnl > 0.
C6_Averages ==
    /\ pc = "returned" =>
        \A i \in 1..Len(trades) :
            LET t == trades[i]
                S == ScenarioPositions(t.symbol)
                n == Cardinality(S)
                avg_entry == FDiv(FromInt(EntrySum(S)), FromInt(n))
                avg_exit  == FDiv(FromInt(ExitSum(S)), FromInt(n))
                pnl == IF t.side = "LONG" THEN FSub(avg_exit, avg_entry)
                       ELSE FSub(avg_entry, avg_exit)
            IN  /\ n > 0
                /\ t.side \in {"LONG", "SHORT"}
                /\ t.entry_price = avg_entry
                /\ t.exit_price = avg_exit
                /\ t.pnl = pnl
                /\ t.pnl_percent = FMul(FDiv(pnl, avg_entry), FromInt(100))
    /\ (pc # "start" /\ scenario.name = "ETH Crash") =>
        /\ pc = "returned"
        /\ Len(trades) = 1
        /\ trades[1].symbol = "ETHUSDT"
        /\ trades[1].side = "SHORT"
        /\ FGt(trades[1].pnl, FZero)

\* a SHORT trade on a symbol held on both sides
C6_Witness ==
    /\ pc = "returned"
    /\ \E i \in 1..Len(trades) :
        /\ trades[i].side = "SHORT"
        /\ \E x, y \in ScenarioPositions(trades[i].symbol) :
            MockAt(x).side = "LONG" /\ MockAt(y).side = "SHORT"

(***************************************************************************)
(* Properties of _calculate_metrics.                                       *)
(***************************************************************************)
Same(x, y) == FCmp(x, y) = 0

\* the pnl values of the trades are the integers of ns, in order
PnlsAre(ns) ==
    /\ Len(trades) = Len(ns)
    /\ \A i \in 1..Len(ns) : Same(trades[i].pnl, FromInt(ns[i]))

LossMagnitudes ==
    {FAbs(trades[i].pnl) : i \in {j \in 1..Len(trades) : FLe(trades[j].pnl, FZero)}}

\* C7: for a non-empty trade list max_drawdown is the largest |pnl| among
\* the trades with pnl <= 0, and 0 when there is none; pnls [10, -5, -8, 3]
\* give 8.
C7_LargestLoss ==
    (pc = "returned" /\ trades # <<>>) =>
        /\ IF LossMagnitudes = {} THEN Same(result.max_drawdown, FZero)
           ELSE /\ \E x \in LossMagnitudes : Same(result.max_drawdown, x)
                /\ \A x \in LossMagnitudes : FGe(result.max_drawdown, x)
        /\ PnlsAre(<<10, -5, -8, 3>>) => Same(result.max_drawdown, FromInt(8))

\* two losses of different size, the smaller one first, and a win between
C7_Witness ==
    /\ pc = "returned"
    /\ PnlsAre(<<10, -5, -8, 3>>)
    /\ Same(result.max_drawdown, FromInt(8))

\* C8: winning_trades counts the trades with pnl > 0, losing_trades those
\* with pnl <= 0 (a pnl of 0 is a loss), and the two add up to total_trades,
\* the length of the trade list.
C8_Counts ==
    pc = "returned" =>
        /\ result.winning_trades =
              Cardinality({i \in 1..Len(trades) : FGt(trades[i].pnl, FZero)})
        /\ result.losing_trades =
              Cardinality({i \in 1..Len(trades) : FLe(trades[i].pnl, FZero)})
        /\ result.winning_trades + result.losing_trades = result.total_trades
        /\ result.total_trades = Len(trades)

\* a trade of pnl 0 next to a winning one
C8_Witness ==
    /\ pc = "returned"
    /\ \E i \in 1..Len(trades) : Same(trades[i].pnl, FZero)
    /\ result.winning_trades >= 1
    /\ result.losing_trades >= 1

MeanOf(xs) == IF xs = <<>> THEN FZero ELSE FDiv(FSum(xs), FromInt(Len(xs)))

WinnerPnls == SelectSeq(Pnls(trades), LAMBDA x : FGt(x, FZero))

LoserPnls == SelectSeq(Pnls(trades), LAMBDA x : FLe(x, FZero))

\* the four formulas, the signs of the averages and the example
MetricFormulas ==
    /\ Same(result.win_rate,
            FMul(FDiv(FromInt(Len(WinnerPnls)), FromInt(Len(trades))), FromInt(100)))
    /\ Same(result.total_pnl, FSum(Pnls(trades)))
    /\ Same(result.avg_profit, MeanOf(WinnerPnls))
    /\ Same(result.avg_loss, MeanOf(LoserPnls))
    /\ FLe(result.avg_loss, FZero)
    /\ FLe(FZero, result.avg_profit)
    /\ PnlsAre(<<10, -5, -8, 3>>) =>
        /\ Same(result.win_rate, FromInt(50))
        /\ Same(result.avg_loss, Dec(-65, 10))

\* winners * avg_profit + losers * avg_loss
Recombined ==
    FAdd(FMul(FromInt(result.winning_trades), result.avg_profit),
         FMul(FromInt(result.losing_trades), result.avg_loss))

\* C9 as stated: for a non-empty trade list the four formulas hold,
\* avg_loss <= 0 <= avg_profit, and total_pnl equals
\* winners * avg_profit + losers * avg_loss.
C9_ExactIdentity ==
    (pc = "returned" /\ trades # <<>>) =>
        /\ MetricFormulas
        /\ Same(result.total_pnl, Recombined)

\* C9: for a non-empty trade list the four formulas hold,
\* avg_loss <= 0 <= avg_profit, and total_pnl differs from
\* winners * avg_profit + losers * avg_loss by at most 1e-9 times the sum of
\* the absolute pnls.
C9_IdentityUpToRounding ==
    (pc = "returned" /\ trades # <<>>) =>
        /\ MetricFormulas
        /\ FLe(FAbs(FSub(result.total_pnl, Recombined)),
               FMul(Epsilon, FSum([i \in 1..Len(trades) |-> FAbs(trades[i].pnl)])))

\* winners and losers whose averages do not multiply back to the total
C9_Witness ==
    /\ pc = "returned"
    /\ result.winning_trades >= 1
    /\ result.losing_trades >= 1
    /\ ~Same(result.total_pnl, Recombined)
(***************************************************************************)
(* Properties of a sequence of calculate_consensus calls.                  *)
(***************************************************************************)
\* C11: calls with the same snapshot and allowlist returned the same records,
\* whatever was called between them, each call returned what its inputs alone
\* determine and left its positions mapping as it was, and no call changes
\* min_consensus.
C11_Idempotent ==
    /\ [](/\ \A i, j \in 1..Len(calls) :
                (/\ calls[i].positions = calls[j].positions
                 /\ calls[i].tracked_symbols = calls[j].tracked_symbols)
                => calls[i].consensus_list = calls[j].consensus_list
          /\ \A i \in 1..Len(calls) :
                /\ calls[i].positions_after = calls[i].positions
                /\ calls[i].consensus_list =
                      calculate_consensus(calls[i].positions, calls[i].tracked_symbols,
                                          FromInt(DefaultMinConsensus)))
    /\ [][min_consensus' = min_consensus]_vars

\* the same snapshot aggregated twice with another snapshot between
C11_Witness ==
    /\ Len(calls) = 3
    /\ calls[1].positions = calls[3].positions
    /\ calls[1].tracked_symbols = calls[3].tracked_symbols
    /\ calls[2].positions # calls[1].positions
    /\ calls[2].consensus_list # <<>>
    /\ calls[3].consensus_list # <<>>
(***************************************************************************)
(* Properties of the two views of a consensus list.                        *)
(***************************************************************************)
ActionableAt(cl) == {i \in 1..Len(cl) : cl[i].signal # "NEUTRAL"}

\* the index in cl of its j-th actionable record
NthActionable(cl, j) ==
    CHOOSE i \in ActionableAt(cl) : Cardinality({k \in ActionableAt(cl) : k < i}) = j - 1

\* C16: get_strong_signals returns the records of its input whose signal is
\* STRONG_BUY, BUY, STRONG_SELL or SELL (that is, not NEUTRAL), each once and
\* in the order of the input, and the input list is left as it was.
C16_ActionableInOrder ==
    /\ [](pc = "returned" /\ call = "get_strong_signals" =>
            /\ \A i \in 1..Len(consensus_list) :
                  consensus_list[i].signal # "NEUTRAL" <=>
                     consensus_list[i].signal \in {"STRONG_BUY", "BUY", "STRONG_SELL", "SELL"}
            /\ Len(strong_signals) = Cardinality(ActionableAt(consensus_list))
            /\ \A j \in 1..Len(strong_signals) :
                  strong_signals[j] = consensus_list[NthActionable(consensus_list, j)])
    /\ [][call = "get_strong_signals" => consensus_list' = consensus_list]_vars

C16_Witness ==
    /\ pc = "returned"
    /\ call = "get_strong_signals"
    /\ Len(strong_signals) >= 3
    /\ Len(strong_signals) < Len(consensus_list)
    /\ \E i, j \in 1..Len(strong_signals) :
          strong_signals[i].signal = "BUY" /\ strong_signals[j].signal = "STRONG_SELL"

Min(a, b) == IF a < b THEN a ELSE b

\* the three lines a signal block must show for record c
BlockShows(lines, at, c) ==
    /\ lines[at] = SignalBlock(c)[1]
    /\ c.signal \in {"STRONG_BUY", "BUY"} =>
          lines[at + 1] = "- LONG: " \o Format1(c.long_percent) \o "%"
    /\ c.signal \in {"STRONG_SELL", "SELL"} =>
          lines[at + 1] = "- SHORT: " \o Format1(c.short_percent) \o "%"
    /\ lines[at + 2] = "- Traders: " \o ToString(c.total_count) \o " ("
                          \o ToString(c.long_count) \o " LONG / "
                          \o ToString(c.short_count) \o " SHORT)"
    /\ lines[at + 3] = ""

\* C17: for a non-empty list with k actionable records and n records, the
\* report holds one signal block for each of the first min(5, k) actionable
\* records in list order (LONG with long_percent for the BUY family, SHORT
\* with short_percent for the SELL family, both with the trader counts), or
\* the no-consensus notice when k = 0, and after that one line for each of
\* the first min(3, n) records of the list whatever their signal.
C17_ReportLayout ==
    pc = "returned" /\ call = "format_consensus_report" /\ consensus_list # <<>> =>
        LET k == Cardinality(ActionableAt(consensus_list))
            n == Len(consensus_list)
            blocks == Min(5, k)
            top == IF k = 0 THEN 4 ELSE 4 + 4 * blocks
        IN  /\ report[1] = "(chart) *BINANCE CONSENSUS REPORT*"
            /\ report[2] = ""
            /\ k = 0 => report[3] = "(warning) No clear consensus (minimum 60% required)"
            /\ k > 0 => report[3] = "(alarm) *SIGNALS:*"
            /\ report[4] = ""
            /\ k > 0 => \A j \in 1..blocks :
                  BlockShows(report, 4 * j + 1,
                             consensus_list[NthActionable(consensus_list, j)])
            /\ report[top + 1] = "(trend) *Most discussed:*"
            /\ report[top + 2] = ""
            /\ Len(report) = top + 2 + Min(3, n)
            /\ \A i \in 1..Min(3, n) :
                  report[top + 2 + i] =
                     "- " \o consensus_list[i].symbol \o ": "
                          \o Format1(consensus_list[i].long_percent) \o "% LONG ("
                          \o ToString(consensus_list[i].total_count) \o " traders)"

C17_Witness ==
    /\ pc = "returned"
    /\ call = "format_consensus_report"
    /\ Cardinality(ActionableAt(consensus_list)) > 5
    /\ consensus_list[1].signal = "BUY"
    /\ consensus_list[Len(consensus_list)].signal = "STRONG_SELL"
    /\ Len(report) = 29

\* a list without actionable records gets the notice and its top lines
C17_WitnessNotice ==
    /\ pc = "returned"
    /\ call = "format_consensus_report"
    /\ Len(consensus_list) > 3
    /\ ActionableAt(consensus_list) = {}
    /\ Len(report) = 9
(***************************************************************************)
(* Properties of calls with empty inputs.                                  *)
(***************************************************************************)
\* a snapshot without a position: no trader, or traders with empty lists
NoPositions(ps) == \A i \in 1..Len(ps) : ps[i].plist = <<>>

ZeroedResult ==
    [total_trades |-> 0, winning_trades |-> 0, losing_trades |-> 0,
     win_rate |-> FZero, total_pnl |-> FZero, avg_profit |-> FZero,
     avg_loss |-> FZero, max_drawdown |-> FZero, trades |-> <<>>]

\* C12: empty inputs never fail and give empty or zeroed outputs:
\* calculate_consensus on a mapping without positions returns the empty
\* list, format_consensus_report on the empty list returns the no-data
\* message, run_scenario on a scenario without positions returns no trades,
\* and _calculate_metrics on the empty trade list returns a result with
\* every count and metric 0 and an empty trade list.
C12_EmptyInputs ==
    /\ pc # "start" /\ call = "calculate_consensus" /\ NoPositions(positions) =>
          pc = "returned" /\ consensus_list = <<>>
    /\ pc # "start" /\ call = "format_consensus_report" /\ consensus_list = <<>> =>
          pc = "returned" /\ report = <<"(chart) No position data">>
    /\ pc # "start" /\ call = "run_scenario" /\ NoPositions(scenario.positions) =>
          pc = "returned" /\ trades = <<>>
    /\ pc # "start" /\ call = "_calculate_metrics" /\ trades = <<>> =>
          pc = "returned" /\ result = ZeroedResult

C12_Witness ==
    /\ pc = "returned"
    /\ call = "_calculate_metrics"
    /\ trades = <<>>
    /\ result.total_trades = 0
    /\ result.trades = <<>>

C12_WitnessConsensus ==
    pc = "returned" /\ call = "calculate_consensus" /\ positions = <<>> /\ consensus_list = <<>>

C12_WitnessReport ==
    pc = "returned" /\ call = "format_consensus_report" /\ consensus_list = <<>>
       /\ Len(report) = 1

C12_WitnessScenario ==
    pc = "returned" /\ call = "run_scenario" /\ scenario.positions = <<>>
       /\ scenario.traders # <<>> /\ trades = <<>>
(***************************************************************************)
(* The built-in BTC bull-run scenario.                                     *)
(***************************************************************************)
\* C13: run_scenario of a Backtester with min_consensus 60 on the built-in
\* BTC bull-run scenario gives one BTCUSDT record with long_count 4,
\* short_count 1, total_count 5, long_percent 80 (the scenario's
\* expected_consensus) and signal STRONG_BUY, and exactly one trade: LONG,
\* entry_price 40300, exit_price 44000, pnl 3700 and pnl_percent
\* 3700/40300*100, about 9.18.
C13_BullRun ==
    pc # "start" /\ scenario.name = "BTC Bull Run" =>
        /\ min_consensus = FromInt(60)
        /\ pc = "returned"
        /\ Len(consensus_list) = 1
        /\ consensus_list[1].symbol = "BTCUSDT"
        /\ consensus_list[1].long_count = 4
        /\ consensus_list[1].short_count = 1
        /\ consensus_list[1].total_count = 5
        /\ consensus_list[1].long_percent = FromInt(80)
        /\ scenario.expected_consensus =
              <<[symbol |-> "BTCUSDT", long_percent |-> consensus_list[1].long_percent]>>
        /\ consensus_list[1].signal = "STRONG_BUY"
        /\ Len(trades) = 1
        /\ trades[1].symbol = "BTCUSDT"
        /\ trades[1].side = "LONG"
        /\ trades[1].entry_price = FromInt(40300)
        /\ trades[1].exit_price = FromInt(44000)
        /\ trades[1].pnl = FromInt(3700)
        /\ trades[1].pnl_percent = FMul(FDiv(FromInt(3700), FromInt(40300)), FromInt(100))
        /\ FLt(Dec(9175, 1000), trades[1].pnl_percent)
        /\ FLt(trades[1].pnl_percent, Dec(9185, 1000))

C13_Witness ==
    /\ pc = "returned"
    /\ scenario = get_scenario_1_btc_bull_run
    /\ Len(scenario.traders) = 5
    /\ Len(trades) = 1
    /\ trades[1].signal = "STRONG_BUY"
(***************************************************************************)
(* Properties of the run over all scenarios.                               *)
(***************************************************************************)
\* the number of trades of the first i scenarios
RECURSIVE TradesBefore(_, _)
TradesBefore(lists, i) ==
    IF i = 0 THEN 0 ELSE TradesBefore(lists, i - 1) + Len(lists[i])

\* the symbols of the actionable records of the scenario's consensus, in
\* the order of the consensus list
ActionableSymbols(sc, mc) ==
    LET cl == calculate_consensus(ConvertTraders(sc, 1, <<>>), NoneList, mc)
        at == SelectSeq(cl, LAMBDA c : c.signal # "NEUTRAL")
    IN  [i \in 1..Len(at) |-> at[i].symbol]

\* C14: run_all_scenarios gives _calculate_metrics the concatenation of the
\* trades of each scenario, in scenario order and within a scenario in
\* consensus-list order: the result's trades are that concatenation,
\* total_trades is the sum of the per-scenario counts, and no trade is
\* dropped, duplicated or moved.
C14_Concatenation ==
    /\ [](call = "run_all_scenarios" =>
            /\ Len(all_trades) = TradesBefore(returned_trades, Len(returned_trades))
            /\ \A i \in 1..Len(returned_trades) :
                  /\ returned_trades[i] =
                        run_scenario(scenarios[i], NoneList, min_consensus).trades
                  /\ [j \in 1..Len(returned_trades[i]) |-> returned_trades[i][j].symbol]
                        = ActionableSymbols(scenarios[i], min_consensus)
                  /\ \A j \in 1..Len(returned_trades[i]) :
                        all_trades[TradesBefore(returned_trades, i - 1) + j]
                           = returned_trades[i][j]
            /\ pc = "returned" =>
                  /\ Len(returned_trades) = Len(scenarios)
                  /\ result.trades = all_trades
                  /\ result.total_trades = TradesBefore(returned_trades, Len(scenarios)))
    /\ [][call = "run_all_scenarios" =>
            /\ Len(all_trades') >= Len(all_trades)
            /\ SubSeq(all_trades', 1, Len(all_trades)) = all_trades]_vars

C14_Witness ==
    /\ pc = "returned"
    /\ call = "run_all_scenarios"
    /\ Len(scenarios) = 3
    /\ scenarios[1].name = "two symbols"
    /\ scenarios[2].name = "Mixed Signals"
    /\ scenarios[3].name = "BTC Bull Run"
    /\ result.total_trades = 3
    /\ <<result.trades[1].symbol, result.trades[2].symbol, result.trades[3].symbol>>
          = <<"ETHUSDT", "BTCUSDT", "BTCUSDT">>

\* the built-in list: the BTC trade, then the ETH trade, none for SOL
C14_WitnessBuiltIn ==
    /\ pc = "returned"
    /\ scenarios = get_all_scenarios
    /\ result.total_trades = 2
    /\ result.trades[1].symbol = "BTCUSDT"
    /\ result.trades[2].symbol = "ETHUSDT"
(***************************************************************************)
(* Properties of the leverage and pnl fields.                              *)
(***************************************************************************)
\* the leverage values of the positions of one symbol and side
LeveragesOf(symbol, side) ==
    [i \in 1..Len(PairsOf(symbol, side)) |-> PairsOf(symbol, side)[i].pos.leverage]

\* the recorded pnl values of the positions of one symbol and side
PnlsOf(symbol, side) ==
    [i \in 1..Len(PairsOf(symbol, side)) |-> PairsOf(symbol, side)[i].pos.pnl]

\* the sum a recomputation from the prices would give
PriceMoves(symbol, side) ==
    SumInt([i \in 1..Len(PairsOf(symbol, side)) |->
               PairsOf(symbol, side)[i].pos.mark_price
                  - PairsOf(symbol, side)[i].pos.entry_price])

\* the mean of int values: 0 for none, else their exact sum divided once
ArithmeticMean(xs) ==
    IF Len(xs) = 0 THEN FZero ELSE FDiv(FromInt(SumInt(xs)), FromInt(Len(xs)))

RECURSIVE PlainSum(_)
PlainSum(xs) == IF xs = <<>> THEN FZero ELSE FAdd(PlainSum(SubSeq(xs, 1, Len(xs) - 1)), xs[Len(xs)])

\* C15: in every record calculate_consensus returns, avg_leverage_long and
\* avg_leverage_short are the arithmetic means of the leverage of the
\* symbol's LONG and SHORT positions, 0 for a side without positions, and
\* total_long_pnl and total_short_pnl are the plain sums of the recorded pnl
\* of the side's positions, 0 for an empty side; prices play no part.
C15_LeverageAndPnl ==
    pc = "returned" =>
        \A c \in Records :
            /\ c.avg_leverage_long = ArithmeticMean(LeveragesOf(c.symbol, "LONG"))
            /\ c.avg_leverage_short = ArithmeticMean(LeveragesOf(c.symbol, "SHORT"))
            /\ c.long_count = 0 => IsZero(c.avg_leverage_long) /\ IsZero(c.total_long_pnl)
            /\ c.short_count = 0 => IsZero(c.avg_leverage_short) /\ IsZero(c.total_short_pnl)
            /\ c.total_long_pnl = PlainSum(PnlsOf(c.symbol, "LONG"))
            /\ c.total_short_pnl = PlainSum(PnlsOf(c.symbol, "SHORT"))

\* three LONG positions with leverage 2, 5 and 20 and pnl 10, -4 and 3,
\* and two SHORT ones with leverage 3 and 4
C15_Witness ==
    /\ pc = "returned"
    /\ \E c \in Records :
          /\ c.symbol = "BTCUSDT"
          /\ LeveragesOf("BTCUSDT", "LONG") = <<2, 5, 20>>
          /\ c.avg_leverage_long = FromInt(9)
          /\ c.short_count = 0
          /\ c.avg_leverage_short = FZero
          /\ c.total_long_pnl = FromInt(9)
          /\ c.total_long_pnl # FromInt(PriceMoves("BTCUSDT", "LONG"))
    /\ \E c \in Records :
          /\ c.symbol = "ETHUSDT"
          /\ c.avg_leverage_short = Dec(35, 10)

\* a mean that is not a whole number: leverage 1, 2 and 2
C15_WitnessThirds ==
    /\ pc = "returned"
    /\ \E c \in Records :
          /\ LeveragesOf(c.symbol, "SHORT") = <<1, 2, 2>>
          /\ c.avg_leverage_short = FDiv(FromInt(5), FromInt(3))
(***************************************************************************)
(* Properties of the application.                                          *)
(***************************************************************************)
\* C18: an empty TRACKED_SYMBOLS setting means that all symbols are
\* tracked: with the environment value "" the allowlist config passes to
\* calculate_consensus filters out no position, and every symbol with a
\* position appears in the scan's consensus.
C18_EmptyMeansAll ==
    env_tracked = EnvText(<<>>) =>
        \A sym \in SnapshotSymbols :
            /\ ~(Truthy(ConfigTracked[env_tracked])
                   /\ ~InList(sym, ConfigTracked[env_tracked].items))
            /\ \E c \in Records : c.symbol = sym

\* the scan that shows it: positions on two symbols, an empty consensus
C18_Lost ==
    /\ env_tracked = EnvText(<<>>)
    /\ tracked_symbols = ListOf(<<"">>)
    /\ SnapshotSymbols = {"BTCUSDT", "ETHUSDT"}
    /\ consensus_list = <<>>
    /\ pc = "after_scan"

\* C19: once the bot has handled /stop it is stopped: its is_running flag
\* is false, and no later scan of the watch loop sends a consensus report
\* or a strong-signal alert, until the bot is started again.
C19_StopSilences ==
    stop_scans >= 0 =>
        /\ ~bot_is_running
        /\ \A i \in 1..Len(sent) : sent[i].scan <= stop_scans

\* a report and an alert of the second scan, /stop handled during the first
C19_SentAfterStop ==
    /\ stop_scans = 1
    /\ bot_is_running
    /\ \E i, j \in 1..Len(sent) :
          /\ sent[i].scan = 2 /\ sent[i].kind = "report"
          /\ sent[j].scan = 2 /\ sent[j].kind = "strong_signal"

InScan == {"fetching", "sending"}

InSleep == {"sleep_test", "sleeping"}

\* C20: when signal_handler fires during a scan or during the sleep, no
\* new scan is begun afterwards; a scan in progress runs to its end, no new
\* 1-second sleep is begun, so the sleep in progress ends within one tick,
\* the loop ends, and run() then calls stop_async exactly once if there is a
\* bot; a scan is begun only when none is in progress.
C20_Shutdown ==
    /\ [](fired_pc \in InScan \cup InSleep => scans = fired_scans)
    /\ ((fired_pc \in InScan /\ pc \in InScan) ~> pc = "after_scan")
    /\ [][fired_pc # "none" => ~(pc # "sleeping" /\ pc' = "sleeping")]_vars
    /\ (pc = "sleeping" ~> pc = "sleep_test")
    /\ [](fired_pc # "none" => ~is_running)
    /\ (fired_pc # "none" ~> pc = "done")
    /\ [](stop_calls <= 1)
    /\ [](pc = "done" => stop_calls = (IF has_bot THEN 1 ELSE 0))
    /\ [](pc # "done" => stop_calls = 0)
    /\ [][(pc \in InScan) => (pc' \in InScan \/ pc' = "after_scan")]_vars
    /\ [][scans' # scans => pc \notin InScan /\ pc' \in InScan /\ scans' = scans + 1]_vars

\* the handler fired while the scraper was at work in the second scan;
\* the scan ended, its messages were sent, and the bot was stopped once
C20_Witness ==
    /\ pc = "done"
    /\ fired_pc = "fetching"
    /\ fired_scans = 2
    /\ scans = 2
    /\ has_bot
    /\ stop_calls = 1
    /\ \E i \in 1..Len(sent) : sent[i].scan = 2

\* the handler fired during the sleep
C20_WitnessSleep ==
    pc = "done" /\ fired_pc = "sleeping" /\ scans = fired_scans /\ tick <= 1

\* outside the claim's cases: the handler fired after the loop's test and
\* before the call of run_single_scan, and that scan is still made
C20_AfterLoopTest ==
    fired_pc = "call_scan" /\ scans = fired_scans + 1 /\ pc = "done"

\* the records that get an alert of their own
StrongRecords(cl) ==
    SelectSeq(cl, LAMBDA c : c.signal \in {"STRONG_BUY", "STRONG_SELL"})

\* the messages the k-th scan sent
SentBy(k) == SelectSeq(sent, LAMBDA m : m.scan = k)

\* the messages the claim describes for a consensus list
ReportThenAlerts(cl, k) ==
    <<[scan |-> k, kind |-> "report", symbol |-> ""]>>
    \o [i \in 1..Len(StrongRecords(cl)) |->
          [scan |-> k, kind |-> "strong_signal", symbol |-> StrongRecords(cl)[i].symbol]]

\* C21: a scan that reaches the notification step with a bot present and
\* running sends exactly one consensus report, first, and then exactly one
\* alert for each STRONG_BUY or STRONG_SELL record in the order of the
\* consensus list, beyond the report's first five too, and none for BUY,
\* SELL or NEUTRAL records; without a running bot nothing is sent.
C21_ReportThenAlerts ==
    /\ [](pc = "sending" => has_bot /\ bot_is_running)
    /\ [][(pc = "sending" /\ pc' # "sending") =>
            sent' = sent \o ReportThenAlerts(consensus_list, scans)]_vars
    /\ [][(pc = "fetching" /\ pc' = "after_scan") => sent' = sent]_vars
    /\ [][(sent' # sent) =>
            pc = "sending" /\ pc' = "after_scan" /\ has_bot /\ bot_is_running]_vars
    /\ [](\A k \in 1..scans :
            LET ms == SentBy(k)
            IN  ms # <<>> =>
                  /\ ms[1].kind = "report"
                  /\ \A i \in 2..Len(ms) : ms[i].kind = "strong_signal"
                  /\ \A i, j \in 2..Len(ms) : i # j => ms[i].symbol # ms[j].symbol)
    /\ [](~has_bot => sent = <<>>)

\* the wide snapshot sent: eight records, seven of them actionable, and
\* after the report the five alerts, two of them for records the report
\* leaves out; none for BTCUSDT (BUY), ETHUSDT (SELL), LTCUSDT (NEUTRAL)
C21_Witness ==
    /\ pc = "after_scan"
    /\ scans = 1
    /\ [i \in 1..Len(consensus_list) |-> consensus_list[i].symbol]
         = <<"BTCUSDT", "ETHUSDT", "LTCUSDT", "SOLUSDT", "BNBUSDT", "XRPUSDT",
             "ADAUSDT", "DOGEUSDT">>
    /\ [i \in 1..3 |-> consensus_list[i].signal] = <<"BUY", "SELL", "NEUTRAL">>
    /\ Len(get_strong_signals(consensus_list)) = 7
    /\ [i \in 1..Len(sent) |-> sent[i].kind]
         = <<"report", "strong_signal", "strong_signal", "strong_signal",
             "strong_signal", "strong_signal">>
    /\ [i \in 1..Len(sent) |-> sent[i].symbol]
         = <<"", "SOLUSDT", "BNBUSDT", "XRPUSDT", "ADAUSDT", "DOGEUSDT">>
    /\ \E k \in 1..Len(report) : report[k] = SignalBlock(consensus_list[6])[1]
    /\ \A i \in 7..8 :
          \A k \in 1..Len(report) : report[k] # SignalBlock(consensus_list[i])[1]

\* a scan with strong records and no bot: nothing sent
C21_WitnessNoBot ==
    /\ pc = "after_scan"
    /\ ~has_bot
    /\ StrongRecords(consensus_list) # <<>>
    /\ sent = <<>>

\* the scan caught an exception
Caught == \E i \in 1..Len(scan_trace) : scan_trace[i] = "except"

C22_WitnessRaised ==
    /\ pc = "after_scan"
    /\ scans = 2
    /\ scan_trace = <<"get_top_traders", "get_all_positions", "calculate_consensus",
                      "print_consensus", "except">>
    /\ scan_result = "False"
    /\ last_update = 1
    /\ positions = WideSnapshot

\* the positions trader number t holds on a symbol and side
Held(t, symbol, side) ==
    Cardinality({j \in 1..Len(positions[t].plist) :
                    /\ positions[t].plist[j].symbol = symbol
                    /\ positions[t].plist[j].side = side})

\* the traders holding a position on a symbol
Holders(symbol) ==
    {t \in 1..Len(positions) : Held(t, symbol, "LONG") + Held(t, symbol, "SHORT") > 0}

\* the positions of the snapshot the allowlist lets through
Passing ==
    {tj \in UNION {{<<t, j>> : j \in 1..Len(positions[t].plist)} : t \in 1..Len(positions)} :
        \/ tracked_symbols.is_none
        \/ tracked_symbols.items = <<>>
        \/ \E k \in 1..Len(tracked_symbols.items) :
              tracked_symbols.items[k] = positions[tj[1]].plist[tj[2]].symbol}

Mirror(sig) ==
    CASE sig = "STRONG_BUY" -> "STRONG_SELL"
      [] sig = "STRONG_SELL" -> "STRONG_BUY"
      [] sig = "BUY" -> "SELL"
      [] sig = "SELL" -> "BUY"
      [] OTHER -> "NEUTRAL"

\* the record of a symbol in a consensus list, as a set
RecordsOf(cl, symbol) == {cl[i] : i \in {k \in 1..Len(cl) : cl[k].symbol = symbol}}

\* a side reaches the strong threshold or min_consensus
Qualifies(percent) == FGe(percent, Strong) \/ FGe(percent, min_consensus)

\* C24: for every min_consensus greater than 50 the classification is
\* mirror-symmetric: with the side of every position swapped each symbol
\* keeps its total_count and gets the mirror of its signal (STRONG_BUY and
\* STRONG_SELL, BUY and SELL exchanged, NEUTRAL kept), and no symbol
\* qualifies for a buy signal and a sell signal at once.
C24_MirrorSymmetric ==
    (pc = "returned" /\ FGt(min_consensus, FromInt(50))) =>
        LET before == calls[1].consensus_list
            after  == calls[2].consensus_list
        IN  /\ Len(before) = Len(after)
            /\ \A i \in 1..Len(before) :
                  \E d \in RecordsOf(after, before[i].symbol) :
                      /\ d.total_count = before[i].total_count
                      /\ d.long_count = before[i].short_count
                      /\ d.short_count = before[i].long_count
                      /\ d.signal = Mirror(before[i].signal)
            /\ \A i \in 1..Len(before) :
                  ~(Qualifies(before[i].long_percent) /\ Qualifies(before[i].short_percent))

\* BTCUSDT at 3 of 4 long under a threshold of 80, ETHUSDT short: STRONG_BUY
\* and STRONG_SELL before the swap, exchanged after it
C24_Witness ==
    /\ pc = "returned"
    /\ min_consensus = FromInt(80)
    /\ Len(calls[1].consensus_list) = 2
    /\ Len(calls[2].consensus_list) = 2
    /\ [i \in 1..2 |-> <<calls[1].consensus_list[i].symbol,
                         calls[1].consensus_list[i].long_count,
                         calls[1].consensus_list[i].short_count,
                         calls[1].consensus_list[i].signal>>]
         = <<<<"BTCUSDT", 3, 1, "STRONG_BUY">>, <<"ETHUSDT", 0, 1, "STRONG_SELL">>>>
    /\ [i \in 1..2 |-> <<calls[2].consensus_list[i].symbol,
                         calls[2].consensus_list[i].long_count,
                         calls[2].consensus_list[i].short_count,
                         calls[2].consensus_list[i].signal>>]
         = <<<<"BTCUSDT", 1, 3, "STRONG_SELL">>, <<"ETHUSDT", 1, 0, "STRONG_BUY">>>>

\* BUY at 3 of 5 long under the default threshold becomes SELL
C24_WitnessBuy ==
    /\ pc = "returned"
    /\ min_consensus = FromInt(DefaultMinConsensus)
    /\ \E i \in 1..Len(calls[1].consensus_list) :
          /\ calls[1].consensus_list[i].long_count = 3
          /\ calls[1].consensus_list[i].short_count = 2
          /\ calls[1].consensus_list[i].signal = "BUY"
          /\ calls[2].consensus_list[i].signal = "SELL"

\* at a threshold of 50 a symbol split evenly is BUY before and after
C24_AtFifty ==
    /\ pc = "returned"
    /\ min_consensus = FromInt(50)
    /\ \E i \in 1..Len(calls[1].consensus_list) :
          /\ calls[1].consensus_list[i].long_count = calls[1].consensus_list[i].short_count
          /\ calls[1].consensus_list[i].signal = "BUY"
          /\ calls[2].consensus_list[i].signal = "BUY"

(***************************************************************************)
(* Properties of a scenario with an entry price of 0.                      *)
(***************************************************************************)
\* the positions a scenario's listed traders hold on a symbol
ListedPositions(sc, symbol) ==
    LET flat == Flatten(ConvertTraders(sc, 1, <<>>))
    IN  SelectSeq([i \in 1..Len(flat) |-> flat[i].pos], LAMBDA p : p.symbol = symbol)

\* the entry prices of those positions sum to 0, and so does their average
ZeroAvgEntry(sc, symbol) ==
    SumInt([i \in 1..Len(ListedPositions(sc, symbol)) |->
               ListedPositions(sc, symbol)[i].entry_price]) = 0

\* the symbols of the scenario's consensus
ConsensusSymbols(sc, mc) ==
    LET cl == calculate_consensus(ConvertTraders(sc, 1, <<>>), NoneList, mc)
    IN  [i \in 1..Len(cl) |-> cl[i].symbol]

\* an actionable symbol of the scenario has an average entry price of 0
ZeroEntryActionable(sc, mc) ==
    \E i \in 1..Len(ActionableSymbols(sc, mc)) :
        ZeroAvgEntry(sc, ActionableSymbols(sc, mc)[i])

\* a NEUTRAL symbol of the scenario has an average entry price of 0
ZeroEntryNeutral(sc, mc) ==
    \E i \in 1..Len(ConsensusSymbols(sc, mc)) :
        /\ ZeroAvgEntry(sc, ConsensusSymbols(sc, mc)[i])
        /\ \A j \in 1..Len(ActionableSymbols(sc, mc)) :
              ActionableSymbols(sc, mc)[j] # ConsensusSymbols(sc, mc)[i]

\* C25: a scenario with an actionable symbol whose average entry price is
\* 0 makes run_scenario fail with a division by zero and return no trade
\* list, the trades built for its earlier symbols being lost, and
\* run_all_scenarios then produces no BacktestResult; a symbol with an
\* average entry price of 0 and a NEUTRAL signal causes no error.
C25_ZeroEntry ==
    /\ [](call = "run_all_scenarios" =>
            /\ \A i \in 1..Len(returned_trades) :
                  ~ZeroEntryActionable(scenarios[i], min_consensus)
            /\ pc = "raised" =>
                  /\ Len(returned_trades) < Len(scenarios)
                  /\ scenario = scenarios[Len(returned_trades) + 1]
                  /\ ZeroEntryActionable(scenario, min_consensus)
                  /\ trades = <<>>
                  /\ Len(all_trades) = TradesBefore(returned_trades, Len(returned_trades))
                  /\ result = NoResult
            /\ result # NoResult =>
                  \A i \in 1..Len(scenarios) :
                      ~ZeroEntryActionable(scenarios[i], min_consensus))
    /\ [][call = "run_all_scenarios" => pc # "raised"]_vars

\* the second scenario raised at SOLUSDT after the trade of its BTCUSDT was
\* built: the caller holds the first scenario's two trades and no result
C25_Witness ==
    /\ pc = "raised"
    /\ call = "run_all_scenarios"
    /\ Len(scenarios) = 2
    /\ scenarios[1] = TwoSymbolScenario
    /\ scenario = LateZeroEntryScenario
    /\ ActionableSymbols(scenario, min_consensus) = <<"BTCUSDT", "SOLUSDT">>
    /\ ~ZeroAvgEntry(scenario, "BTCUSDT")
    /\ ZeroAvgEntry(scenario, "SOLUSDT")
    /\ Len(returned_trades) = 1
    /\ Len(all_trades) = 2
    /\ trades = <<>>
    /\ result = NoResult

\* SOLUSDT NEUTRAL at an average entry price of 0: the scenario returned its
\* BTCUSDT trade and the run its result
C25_WitnessNeutral ==
    /\ pc = "returned"
    /\ call = "run_all_scenarios"
    /\ scenarios = <<NeutralZeroEntryScenario>>
    /\ ZeroEntryNeutral(scenarios[1], min_consensus)
    /\ Len(returned_trades[1]) = 1
    /\ result.total_trades = 1

====
